---- MODULE Spec2Model ----
(***************************************************************************)
(* The persistent build queue of pkgforge/build-system                     *)
(* (internal/queue), the executor that drains it (internal/executor) and   *)
(* the buildctl commands that drive both (cmd/buildctl).                   *)
(*                                                                         *)
(* Time is counted in ticks of a single monotonic clock; TicksPerSec ticks *)
(* make one second.  SQLite's CURRENT_TIMESTAMP has a resolution of one    *)
(* second, Go's time.Now() keeps the sub-second part.                      *)
(* A nullable column is a sequence: <<>> is NULL, <<v>> holds v.           *)
(***************************************************************************)
EXTENDS Integers, Sequences, FiniteSets, TLC

\* ---------------------------------------------------------------- bounds
\* Rows ever enqueued: MaxBuilds with the clock held still (SpecStore),
\* MaxTimedBuilds where the clock runs (Spec, SpecSingle).
MaxBuilds == 2
MaxTimedBuilds == 1
\* The clock runs from 0 to MaxClock ticks.
MaxClock == 2
TicksPerSec == 2
\* The pool of queued rows SpecDispatch starts from: ids 1..DispatchRows, each
\* created in one of the seconds 0..MaxCreatedSec.
DispatchRows == 3
MaxCreatedSec == 2
\* Rows ever saved to sync_state.
MaxSyncs == 1
\* Lines the driver prints in one run.
MaxLines == 1
\* Characters of a string given to a sanitizer.
MaxStrLen == 4
\* Rows saved to sync_state where the order of the saves is looked at (SpecSync).
MaxSaves == 2

\* ------------------------------------------------------------- constants
StatusQueued == "queued"
StatusBuilding == "building"
StatusSucceeded == "succeeded"
StatusFailed == "failed"
StatusCancelled == "cancelled"

BuildStatus == {StatusQueued, StatusBuilding, StatusSucceeded, StatusFailed, StatusCancelled}
Terminal == {StatusSucceeded, StatusFailed, StatusCancelled}

Archs == {"x86_64-Linux", "aarch64-Linux"}
\* buildCmd's default --arch: the arch of the dispatch command's workers.
DispatchArch == "x86_64-Linux"
\* queueCmd's default --priority, and the priority forceCmd enqueues with.
DefaultPriority == 10
ForcePriority == 100
Priorities == {DefaultPriority, ForcePriority}
Pkgs == {"bat"}

\* The processes: the workers of one dispatch command (goroutines of RunWorker)
\* and one more buildctl command running beside them.
Workers == {"w1", "w2"}
Cli == "cli"
Procs == Workers \cup {Cli}

CancelMsg == "Cancelled by user"
\* What syncCmd saves: the repository, the commit, the number of recipes found.
SyncRepo == "soarpkgs"
SyncCommit == "HEAD"
RecipeCounts == {0, 1}
LogTailMsg == "log tail"

\* How ExecuteBuild ends once the row is `building`: <<status, error message>>.
Outcomes == { <<StatusSucceeded, "">>, <<StatusFailed, LogTailMsg>> }

\* The statuses resetCmd passes to Clear: "" (all rows), failed, queued.
ClearArgs == {"", StatusFailed, StatusQueued}

NULL == <<>>
IsNull(x) == x = <<>>
Val(x) == x[1]

VARIABLES
    builds,        \* table builds: id -> row, for the rows that exist
    seq,           \* sqlite_sequence of builds: the largest id ever assigned
    clock,         \* the last time read from the clock, in ticks
    pc,            \* where each process is
    cur,           \* the build id a process holds (0: none)
    now,           \* the time.Now() a process took in UpdateStatus, until its write
    assigned,      \* history: the ids Add returned
    everBuilding,  \* history: the ids whose row was written `building`
    nStart,        \* history: id -> number of workers' writes of `building`, counted to 2
    stale,         \* history: the processes whose time.Now() is older than a write of
                   \*          `building` applied since to the row they are about to write
    late,          \* history: the ids whose last terminal write came from a stale process
    sync_state,    \* table sync_state: the rows in the order of their ids
    dispatch,      \* the dispatch command (buildCmd without --id): "run", "closed"
                   \* (it returned and closed stopChan), "exited" (its process is gone)
    crashed,       \* history: the ids a worker had written `building` and was running
                   \*          when its process went away
    exec,          \* where each process is inside runSbuild, and what it found
    up,            \* one call of Uploader.UploadPackage: its inputs, the package
                   \* directory, where the call is and what it has done
    san,           \* a string and what the sanitizer applied to it has returned
    ref,           \* the naming of one target: the inputs of the image reference,
                   \* the reference pushed and the ghcr_pkg written to <target>.json
    cat,           \* one run of the catalogue builder (metadata.Generator)
    scan           \* one call of Scanner.ScanByPackage: the recipes, the name, the result

vars == <<builds, seq, clock, pc, cur, now, assigned, everBuilding, nStart, stale, late, sync_state, dispatch, crashed, exec, up, san, ref, cat, scan>>

\* ------------------------------------------------------------ the store
Max(S) == CHOOSE x \in S : \A y \in S : y <= x

\* Mutant: the timestamp rounded up to the next whole second.
CurrentTimestampRoundedUp(t) == ((t + TicksPerSec - 1) \div TicksPerSec) * TicksPerSec

\* CURRENT_TIMESTAMP: the clock cut to whole seconds.
CurrentTimestamp(t) == (t \div TicksPerSec) * TicksPerSec

\* Mutant: INTEGER PRIMARY KEY without AUTOINCREMENT: one more than the largest
\* id in the table.
NextIdOfRowid(b, s) == Max({0} \cup DOMAIN b) + 1

\* INTEGER PRIMARY KEY AUTOINCREMENT: one more than the largest id ever used.
NextId(b, s) == Max({s} \cup DOMAIN b) + 1

\* The row Add inserts.
NewRow(pkgName, a, priority, forceBuild, t) ==
    [ pkg_name |-> pkgName, arch |-> a, priority |-> priority, force_build |-> forceBuild,
      status |-> StatusQueued, created_at |-> CurrentTimestamp(t),
      started_at |-> NULL, completed_at |-> NULL,
      duration_seconds |-> NULL, error_message |-> NULL ]

Insert(b, id, row) == [ i \in DOMAIN b \cup {id} |-> IF i = id THEN row ELSE b[i] ]

\* CAST(x AS INTEGER) of a quotient: the fraction is cut, towards zero.
CastInteger(num, den) == IF num >= 0 THEN num \div den ELSE -((-num) \div den)

\* CAST((julianday(now) - julianday(started_at)) * 86400 AS INTEGER); NULL when
\* started_at is NULL.
DurationSeconds(t, startedAt) ==
    IF IsNull(startedAt) THEN NULL ELSE << CastInteger(t - Val(startedAt), TicksPerSec) >>

\* Mutant: the write of `building` leaves started_at as it is.
UpdatedRowNoStart(row, status, errorMsg, t) ==
    IF status \in Terminal
    THEN [ row EXCEPT !.status = status, !.error_message = <<errorMsg>>,
                      !.completed_at = <<t>>,
                      !.duration_seconds = DurationSeconds(t, row.started_at) ]
    ELSE [ row EXCEPT !.status = status, !.error_message = <<errorMsg>> ]

\* The UPDATE of UpdateStatus on one row.
UpdatedRow(row, status, errorMsg, t) ==
    IF status = StatusBuilding
    THEN [ row EXCEPT !.status = status, !.error_message = <<errorMsg>>,
                      !.started_at = <<t>> ]
    ELSE IF status \in Terminal
    THEN [ row EXCEPT !.status = status, !.error_message = <<errorMsg>>,
                      !.completed_at = <<t>>,
                      !.duration_seconds = DurationSeconds(t, row.started_at) ]
    ELSE [ row EXCEPT !.status = status, !.error_message = <<errorMsg>> ]

\* Mutant: cancelling deletes the row.
ExecUpdateCancelDeletes(b, id, status, errorMsg, t) ==
    IF id \in DOMAIN b
    THEN IF status = StatusCancelled
         THEN [ i \in DOMAIN b \ {id} |-> b[i] ]
         ELSE [ b EXCEPT ![id] = UpdatedRow(b[id], status, errorMsg, t) ]
    ELSE b

\* UPDATE builds SET ... WHERE id = ?: no row with that id, no change.
ExecUpdate(b, id, status, errorMsg, t) ==
    IF id \in DOMAIN b
    THEN [ b EXCEPT ![id] = UpdatedRow(b[id], status, errorMsg, t) ]
    ELSE b

\* WHERE status = 'queued' AND arch = ?
Candidates(b, a) == { i \in DOMAIN b : b[i].status = StatusQueued /\ b[i].arch = a }

\* Mutant: ORDER BY priority DESC, created_at DESC.
OrderedBeforeNewestFirst(b, i, j) ==
    \/ b[i].priority > b[j].priority
    \/ b[i].priority = b[j].priority /\ b[i].created_at >= b[j].created_at

\* Mutant: ORDER BY force_build DESC, priority DESC, created_at ASC.
OrderedBeforeForcedFirst(b, i, j) ==
    \/ b[i].force_build /\ ~b[j].force_build
    \/ /\ b[i].force_build = b[j].force_build
       /\ \/ b[i].priority > b[j].priority
          \/ b[i].priority = b[j].priority /\ b[i].created_at <= b[j].created_at

\* ORDER BY priority DESC, created_at ASC: i sorts no later than j.
OrderedBefore(b, i, j) ==
    \/ b[i].priority > b[j].priority
    \/ b[i].priority = b[j].priority /\ b[i].created_at <= b[j].created_at

\* GetNext: the ids LIMIT 1 may return; rows equal in both keys are in any order.
\* The empty set is sql.ErrNoRows, GetNext's nil.
GetNext(b, a) == { i \in Candidates(b, a) : \A j \in Candidates(b, a) : OrderedBefore(b, i, j) }

\* DELETE FROM builds [WHERE status = ?]
ClearRows(b, status) ==
    [ i \in { j \in DOMAIN b : status # "" /\ b[j].status # status } |-> b[i] ]


\* List(status, 0): the ids of the rows SELECTed, all of them for status "".
List(b, status) == { i \in DOMAIN b : status = "" \/ b[i].status = status }

\* GetByPackage: the ids of the rows WHERE pkg_name = ?
GetByPackage(b, pkgName) == { i \in DOMAIN b : b[i].pkg_name = pkgName }

\* GetStats: COUNT(*) and the count of each status.
GetStats(b) ==
    [ total |-> Cardinality(DOMAIN b),
      queued |-> Cardinality(List(b, StatusQueued)),
      building |-> Cardinality(List(b, StatusBuilding)),
      succeeded |-> Cardinality(List(b, StatusSucceeded)),
      failed |-> Cardinality(List(b, StatusFailed)),
      cancelled |-> Cardinality(List(b, StatusCancelled)) ]

\* The row SaveSyncState inserts into sync_state.
NewSyncRow(repoName, commitHash, packagesCount, t) ==
    [ repo_name |-> repoName, last_commit_hash |-> commitHash,
      last_sync_time |-> CurrentTimestamp(t), packages_synced |-> packagesCount ]

\* GetLastSyncState: the <<commit, time>> pairs the SELECT may return, rows of
\* the same last_sync_time being in any order; <<"", 0>> when there is no row.
GetLastSyncState(ss, repoName) ==
    LET Rows == { i \in DOMAIN ss : ss[i].repo_name = repoName } IN
    IF Rows = {} THEN { <<"", 0>> }
    ELSE { <<ss[i].last_commit_hash, ss[i].last_sync_time>> :
             i \in { k \in Rows : \A j \in Rows : ss[k].last_sync_time >= ss[j].last_sync_time } }

\* The driver's two standard streams, each with its pipe and its copier.
Streams == {"stdout", "stderr"}

\* ExecuteBuild keeps the last 500 bytes of the log.
TailLimit == 500
\* The bytes a copier writes for one line of the driver: prefix, text, newline.
LineLens == {500, 501}

\* Why runSbuild returns an error, and the error wrapped by ExecuteBuild.
RunErrors == {"notfound", "norecipe", "start", "exit"}
WrappedMsg(err) ==
    CASE err = "notfound" -> "Build failed: sbuild not found"
      [] err = "norecipe" -> "Build failed: recipe file not found"
      [] err = "start" -> "Build failed: failed to start sbuild"
      [] OTHER -> "Build failed: sbuild failed"
CreateLogMsg == "Failed to create log file"

\* The bytes first+1 .. last of the log file, as a string.
LogBytes(first, last) == IF first = last THEN "" ELSE ToString(<<first, last>>)

\* Mutant: the first bytes of the log instead of the last.
LogTailFromStart(len) ==
    IF len > TailLimit THEN LogBytes(0, TailLimit) ELSE LogBytes(0, len)

\* string(logContent[len(logContent)-500:]) of a longer log, else the whole log.
LogTail(len) ==
    IF len > TailLimit THEN LogBytes(len - TailLimit, len) ELSE LogBytes(0, len)

\* A process that is not inside runSbuild.  step: where it is; err: runSbuild's
\* error; code: the driver's exit code (-1: not run); log: the log file's
\* length (NULL: no file); pipe: the lines in each pipe; copier: each copier;
\* read: the length of the log as ReadFile returned it (NULL: not read);
\* outcome: the <<status, error message>> of the terminal UpdateStatus.
NoExec ==
    [ step |-> "none", err |-> "", code |-> -1, log |-> NULL, lines |-> 0,
      pipe |-> [ s \in Streams |-> << >> ], copier |-> [ s \in Streams |-> "none" ],
      read |-> NULL, outcome |-> <<"", "">> ]

\* Nothing is being sanitized, named, catalogued or scanned (the other
\* specifications).
NoSanitize == [ fn |-> "none" ]
NoRef == [ step |-> "none" ]
NoCatalogue == [ step |-> "none" ]
NoScan == [ step |-> "none" ]

\* ------------------------------------------------------------ the publisher
\* A file or package name is the sequence of its parts between dots:
\* <<"cal", "json">> is "cal.json", <<"">> the empty string, <<"", "x">> ".x".
EmptyName == <<"">>
\* name + "." + ext
WithExt(name, ext) == name \o <<ext>>
\* strings.HasSuffix(name, "." + ext)
HasSuffix(name, ext) == Len(name) >= 2 /\ name[Len(name)] = ext
\* strings.Contains(name, ".")
ContainsDot(name) == Len(name) > 1
\* name[:strings.LastIndex(name, ".")], for a name that contains a dot
BeforeLastDot(name) == SubSeq(name, 1, Len(name) - 1)

Cal == <<"cal">>
Printf == <<"printf">>
CalSh == <<"cal", "sh">>
CalJson == <<"cal", "json">>
CalSig == <<"cal", "sig">>
TmpDir == <<"tmp">>
\* What the driver may have left in the package directory; TmpDir is a
\* subdirectory, every other entry a regular file.
DirPool == {Cal, Printf, CalSh, CalJson, CalSig, TmpDir}
IsDir(name) == name = TmpDir

\* PackageInfo as extractPackageInfo returns it, reduced to the fields the
\* fan-out reads.  FanOutInfos provide several binaries, SingleInfos at most one.
FanOutProvides == { <<Cal, Printf>>, <<Cal, Cal>>, <<Cal, CalSh>> }
FanOutInfos ==
    [ Provides : FanOutProvides, PkgName : {<<"bat">>}, PkgFamily : {<<"fam">>},
      Pkg : {<<"bat">>} ]
SingleInfos ==
    [ Provides : { << >>, <<EmptyName>>, <<Cal>> },
      PkgName : {EmptyName, <<"bat">>},
      PkgFamily : {EmptyName, <<"fam">>},
      Pkg : {EmptyName, <<"bat">>, <<"bat", "static">>, <<"a", "b", "c">>, <<"", "x">>} ]

\* What signPackageFiles finds: minisign in PATH, MINISIGN_KEY_CONTENT set and
\* the key written to a temporary file, or the error it returns.
SignOk == "ok"
NoMinisign == "minisign not found in PATH"
NoKey == "MINISIGN_KEY_CONTENT environment variable not set"
NoTempKey == "failed to create temp key file"
SignEnvs == {SignOk, NoMinisign, NoKey, NoTempKey}

NotFoundMsg == "package directory not found"
BadPatternMsg == "failed to list package files"
NoFilesMsg == "no files found in package directory"
NoTargetsMsg == "no upload targets determined"
AllFailedMsg == "all uploads failed"
NoTargetsFoundMsg == "no upload targets found"
WriteFailedMsg == "failed to write metadata JSON"

\* One call of UploadPackage before its first statement.  ret is "" while the
\* call runs, "nil" or the error it returned afterwards.
NewUpload(info, dir) ==
    [ step |-> "stat", info |-> info, dir |-> dir,
      files |-> {}, targets |-> << >>, pushes |-> << >>,
      generated |-> {}, metaErr |-> "", signErr |-> "", signed |-> FALSE, unsigned |-> {},
      warned |-> FALSE, ret |-> "" ]
\* No upload under way (the queue's specifications).
NoUpload ==
    [ NewUpload([ Provides |-> << >>, PkgName |-> EmptyName, PkgFamily |-> EmptyName,
                  Pkg |-> EmptyName ], {})
      EXCEPT !.step = "none" ]

\* ------------------------------------------------------------------ Init
\* A new database and no command running.
Init ==
    /\ builds = << >>
    /\ seq = 0
    /\ clock = 0
    /\ pc = [ p \in Procs |-> "idle" ]
    /\ cur = [ p \in Procs |-> 0 ]
    /\ now = [ p \in Procs |-> 0 ]
    /\ assigned = {}
    /\ everBuilding = {}
    /\ nStart = << >>
    /\ stale = {}
    /\ late = {}
    /\ sync_state = << >>
    /\ dispatch = "run"
    /\ crashed = {}
    /\ exec = [ p \in Procs |-> NoExec ]
    /\ up = NoUpload
    /\ san = NoSanitize
    /\ ref = NoRef
    /\ cat = NoCatalogue
    /\ scan = NoScan

\* --------------------------------------------------------------- actions
\* An action that reads the clock takes the time t it reads: the clock is
\* monotonic, so t is no earlier than the last time read.
ReadClock(t) == t >= clock /\ clock' = t

\* queueCmd (forceBuild false) / forceCmd (priority 100, forceBuild true):
\* Manager.Add, one INSERT.
Add(pkgName, a, priority, forceBuild, t) ==
    /\ ReadClock(t)
    /\ LET id == NextId(builds, seq) IN
        /\ builds' = Insert(builds, id, NewRow(pkgName, a, priority, forceBuild, t))
        /\ seq' = id
        /\ assigned' = assigned \cup {id}
        /\ nStart' = Insert(nStart, id, 0)
    /\ UNCHANGED <<pc, cur, now, everBuilding, stale, late, sync_state, dispatch, crashed, exec, up, san, ref, cat, scan>>

\* resetCmd: Manager.Clear, one DELETE.
Clear(status) ==
    /\ builds' = ClearRows(builds, status)
    /\ UNCHANGED <<seq, clock, pc, cur, now, assigned, everBuilding, nStart, stale, late, sync_state, dispatch, crashed, exec, up, san, ref, cat, scan>>

\* listCmd, statusCmd, statsCmd: Manager.List, GetByPackage, GetStats only read.
ListCmd(status) ==
    /\ List(builds, status) \subseteq DOMAIN builds
    /\ UNCHANGED vars

StatusCmd(pkgName) ==
    /\ GetByPackage(builds, pkgName) \subseteq DOMAIN builds
    /\ UNCHANGED vars

StatsCmd ==
    /\ GetStats(builds).total = Cardinality(DOMAIN builds)
    /\ UNCHANGED vars

\* syncCmd: Manager.SaveSyncState, one INSERT into sync_state.
SaveSyncState(repoName, commitHash, packagesCount, t) ==
    /\ ReadClock(t)
    /\ sync_state' = Append(sync_state, NewSyncRow(repoName, commitHash, packagesCount, t))
    /\ UNCHANGED <<builds, seq, pc, cur, now, assigned, everBuilding, nStart, stale, late,
                   dispatch, crashed, exec, up, san, ref, cat, scan>>

\* Manager.GetLastSyncState only reads.
LastSyncStateCmd(repoName) ==
    /\ GetLastSyncState(sync_state, repoName) # {}
    /\ UNCHANGED vars

\* Mutant: GetNext writes the row it returns `building`.
WorkerGetNextClaims(w) ==
    /\ pc[w] = "idle"
    /\ dispatch = "run"
    /\ \E id \in GetNext(builds, DispatchArch) :
        /\ pc' = [ pc EXCEPT ![w] = "claimed" ]
        /\ cur' = [ cur EXCEPT ![w] = id ]
        /\ builds' = ExecUpdate(builds, id, StatusBuilding, "", clock)
    /\ UNCHANGED <<seq, clock, now, assigned, everBuilding, nStart, stale, late, sync_state, dispatch, crashed, exec, up, san, ref, cat, scan>>

\* RunWorker -> ExecuteNext: GetNext returned a row.  The worker looks at stopChan
\* at the top of each iteration only: the select and the GetNext of an iteration
\* are one step here.
WorkerGetNext(w) ==
    /\ pc[w] = "idle"
    /\ dispatch = "run"
    /\ \E id \in GetNext(builds, DispatchArch) :
        /\ pc' = [ pc EXCEPT ![w] = "claimed" ]
        /\ cur' = [ cur EXCEPT ![w] = id ]
    /\ UNCHANGED <<builds, seq, clock, now, assigned, everBuilding, nStart, stale, late, sync_state, dispatch, crashed, exec, up, san, ref, cat, scan>>

\* Mutant: the worker returns when GetNext returns nil.
WorkerIdleExits(w) ==
    /\ pc[w] = "idle"
    /\ dispatch = "run"
    /\ GetNext(builds, DispatchArch) = {}
    /\ pc' = [ pc EXCEPT ![w] = "stopped" ]
    /\ UNCHANGED <<builds, seq, clock, cur, now, assigned, everBuilding, nStart, stale, late,
                   sync_state, dispatch, crashed, exec, up, san, ref, cat, scan>>

\* RunWorker -> ExecuteNext: GetNext returned nil; the worker sleeps and retries.
WorkerIdle(w) ==
    /\ pc[w] = "idle"
    /\ dispatch = "run"
    /\ GetNext(builds, DispatchArch) = {}
    /\ UNCHANGED vars

\* buildCmd with --id: the row is looked up in List("", 0) and handed to ExecuteBuild.
BuildById(id) ==
    /\ pc[Cli] = "idle"
    /\ id \in List(builds, "")
    /\ pc' = [ pc EXCEPT ![Cli] = "claimed" ]
    /\ cur' = [ cur EXCEPT ![Cli] = id ]
    /\ UNCHANGED <<builds, seq, clock, now, assigned, everBuilding, nStart, stale, late, sync_state, dispatch, crashed, exec, up, san, ref, cat, scan>>

\* ExecuteBuild -> UpdateStatus(building): now := time.Now()
StampBuilding(p, t) ==
    /\ pc[p] = "claimed"
    /\ ReadClock(t)
    /\ pc' = [ pc EXCEPT ![p] = "stampB" ]
    /\ now' = [ now EXCEPT ![p] = t ]
    /\ UNCHANGED <<builds, seq, cur, assigned, everBuilding, nStart, stale, late, sync_state, dispatch, crashed, exec, up, san, ref, cat, scan>>

\* The processes that took their time.Now() for a terminal write of row id and
\* have not written yet.
PendingTerminal(id) == { q \in Procs : cur[q] = id /\ pc[q] \in {"stampT", "stampC"} }

\* ExecuteBuild -> UpdateStatus(building): the UPDATE.
WriteBuilding(p) ==
    /\ pc[p] = "stampB"
    /\ builds' = ExecUpdate(builds, cur[p], StatusBuilding, "", now[p])
    /\ pc' = [ pc EXCEPT ![p] = "running" ]
    /\ now' = [ now EXCEPT ![p] = 0 ]
    /\ exec' = [ exec EXCEPT ![p] = NoExec ]
    /\ IF cur[p] \in DOMAIN builds
       THEN /\ everBuilding' = everBuilding \cup {cur[p]}
            /\ nStart' = IF p \in Workers /\ nStart[cur[p]] < 2
                         THEN [ nStart EXCEPT ![cur[p]] = @ + 1 ] ELSE nStart
            /\ stale' = stale \cup PendingTerminal(cur[p])
       ELSE UNCHANGED <<everBuilding, nStart, stale>>
    /\ UNCHANGED <<seq, clock, cur, assigned, late, sync_state, dispatch, crashed, up, san, ref, cat, scan>>

\* ExecuteBuild: runSbuild returned (an error or nil); then
\* UpdateStatus(failed | succeeded): now := time.Now()
Finish(p, t) ==
    /\ pc[p] = "running"
    /\ ReadClock(t)
    /\ pc' = [ pc EXCEPT ![p] = "stampT" ]
    /\ now' = [ now EXCEPT ![p] = t ]
    /\ UNCHANGED <<builds, seq, cur, assigned, everBuilding, nStart, stale, late, sync_state, dispatch, crashed, exec, up, san, ref, cat, scan>>

\* The history kept at a terminal write by p.
NoteTerminal(p) ==
    /\ stale' = stale \ {p}
    /\ late' = IF cur[p] \in DOMAIN builds
               THEN IF p \in stale THEN late \cup {cur[p]} ELSE late \ {cur[p]}
               ELSE late

\* UpdateStatus(failed | succeeded): the UPDATE; the worker loops, the command returns.
TerminalUpdate(p, o) ==
    /\ pc[p] = "stampT"
    /\ builds' = ExecUpdate(builds, cur[p], o[1], o[2], now[p])
    /\ pc' = [ pc EXCEPT ![p] = "idle" ]
    /\ cur' = [ cur EXCEPT ![p] = 0 ]
    /\ now' = [ now EXCEPT ![p] = 0 ]
    /\ NoteTerminal(p)
    /\ UNCHANGED <<seq, clock, assigned, everBuilding, nStart, sync_state, dispatch, crashed, up, san, ref, cat, scan>>

\* The same where the driver run behind the outcome o is left out.
WriteTerminal(p, o) == TerminalUpdate(p, o) /\ UNCHANGED exec

\* cancelCmd -> Cancel -> UpdateStatus(cancelled, "Cancelled by user"): now := time.Now()
CancelStamp(id, t) ==
    /\ pc[Cli] = "idle"
    /\ ReadClock(t)
    /\ pc' = [ pc EXCEPT ![Cli] = "stampC" ]
    /\ cur' = [ cur EXCEPT ![Cli] = id ]
    /\ now' = [ now EXCEPT ![Cli] = t ]
    /\ UNCHANGED <<builds, seq, assigned, everBuilding, nStart, stale, late, sync_state, dispatch, crashed, exec, up, san, ref, cat, scan>>

\* Cancel -> UpdateStatus(cancelled, "Cancelled by user"): the UPDATE.
CancelWrite ==
    /\ pc[Cli] = "stampC"
    /\ builds' = ExecUpdate(builds, cur[Cli], StatusCancelled, CancelMsg, now[Cli])
    /\ pc' = [ pc EXCEPT ![Cli] = "idle" ]
    /\ cur' = [ cur EXCEPT ![Cli] = 0 ]
    /\ now' = [ now EXCEPT ![Cli] = 0 ]
    /\ NoteTerminal(Cli)
    /\ UNCHANGED <<seq, clock, assigned, everBuilding, nStart, sync_state, dispatch, crashed, exec, up, san, ref, cat, scan>>

\* --------------------------------------------- ExecuteBuild and runSbuild
\* The frame of a step inside ExecuteBuild that touches no row.
ExecFrame ==
    UNCHANGED <<builds, seq, clock, pc, cur, now, assigned, everBuilding, nStart, stale, late,
                sync_state, dispatch, crashed, up, san, ref, cat, scan>>

InRun(p, step) == pc[p] = "running" /\ exec[p].step = step

\* ExecuteBuild: os.Create(logFile); when it fails the build is failed at once.
CreateLog(p, ok) ==
    /\ InRun(p, "none")
    /\ exec' = [ exec EXCEPT ![p] =
                 IF ok THEN [ @ EXCEPT !.step = "look", !.log = <<0>> ]
                 ELSE [ @ EXCEPT !.step = "result", !.outcome = <<StatusFailed, CreateLogMsg>> ] ]
    /\ ExecFrame

\* runSbuild: exec.LookPath(sbuildPath)
LookPath(p, ok) ==
    /\ InRun(p, "look")
    /\ exec' = [ exec EXCEPT ![p] =
                 IF ok THEN [ @ EXCEPT !.step = "stat" ]
                 ELSE [ @ EXCEPT !.step = "failed", !.err = "notfound" ] ]
    /\ ExecFrame

\* runSbuild: os.Stat(recipePath)
StatRecipe(p, ok) ==
    /\ InRun(p, "stat")
    /\ exec' = [ exec EXCEPT ![p] =
                 IF ok THEN [ @ EXCEPT !.step = "start" ]
                 ELSE [ @ EXCEPT !.step = "failed", !.err = "norecipe" ] ]
    /\ ExecFrame

\* runSbuild: the pipes, cmd.Start() and the two `go streamOutput`.
StartDriver(p, ok) ==
    /\ InRun(p, "start")
    /\ exec' = [ exec EXCEPT ![p] =
                 IF ok THEN [ @ EXCEPT !.step = "driver",
                                       !.copier = [ s \in Streams |-> "copying" ] ]
                 ELSE [ @ EXCEPT !.step = "failed", !.err = "start" ] ]
    /\ ExecFrame

\* The driver prints a line of n bytes (as the copier will write it) to a stream.
DriverWrite(p, s, n) ==
    /\ InRun(p, "driver")
    /\ exec[p].lines < MaxLines
    /\ exec' = [ exec EXCEPT ![p].pipe[s] = Append(@, n), ![p].lines = @ + 1 ]
    /\ ExecFrame

\* The driver exits with a code; the write ends of its pipes close.
DriverExit(p, code) ==
    /\ InRun(p, "driver")
    /\ exec' = [ exec EXCEPT ![p].step = "exited", ![p].code = code ]
    /\ ExecFrame

\* The read end of the pipes is open until cmd.Wait() has returned.
PipesOpen(p) == exec[p].step \in {"driver", "exited"}

\* streamOutput: scanner.Scan() gets a line and it is written to the log.
CopyLine(p, s) ==
    /\ exec[p].copier[s] = "copying"
    /\ PipesOpen(p)
    /\ exec[p].pipe[s] # << >>
    /\ exec' = [ exec EXCEPT ![p].pipe[s] = Tail(@),
                              ![p].log = << Val(@) + Head(exec[p].pipe[s]) >> ]
    /\ ExecFrame

\* streamOutput: scanner.Scan() returns false, at the end of the stream or
\* because cmd.Wait() closed the pipe under it; what is left in the pipe is lost.
CopierEnd(p, s) ==
    /\ exec[p].copier[s] = "copying"
    /\ \/ exec[p].step = "exited" /\ exec[p].pipe[s] = << >>
       \/ ~PipesOpen(p)
    /\ exec' = [ exec EXCEPT ![p].copier[s] = "done", ![p].pipe[s] = << >> ]
    /\ ExecFrame

\* runSbuild: cmd.Wait() returns once the driver has exited and closes the pipes;
\* runSbuild returns, with an error for a non-zero exit.
Wait(p) ==
    /\ InRun(p, "exited")
    /\ exec' = [ exec EXCEPT ![p] =
                 IF exec[p].code = 0
                 THEN [ @ EXCEPT !.step = "result", !.outcome = <<StatusSucceeded, "">> ]
                 ELSE [ @ EXCEPT !.step = "failed", !.err = "exit" ] ]
    /\ ExecFrame

\* ExecuteBuild after an error of runSbuild: os.ReadFile(logFile) and the tail.
ReadLog(p, readable) ==
    /\ InRun(p, "failed")
    /\ exec' = [ exec EXCEPT ![p] =
                 IF readable
                 THEN [ @ EXCEPT !.step = "result", !.read = exec[p].log,
                                 !.outcome = <<StatusFailed, LogTail(Val(exec[p].log))>> ]
                 ELSE [ @ EXCEPT !.step = "result",
                                 !.outcome = <<StatusFailed, WrappedMsg(exec[p].err)>> ] ]
    /\ ExecFrame

\* ExecuteBuild: UpdateStatus(failed | succeeded) with what the run gave.
FinishRun(p, t) == exec[p].step = "result" /\ Finish(p, t)

WriteOutcome(p) ==
    /\ TerminalUpdate(p, exec[p].outcome)
    /\ exec' = [ exec EXCEPT ![p] = NoExec ]

\* ------------------------------------------------------ a write that fails
\* Mutant: the UPDATE is applied although db.Exec returns an error.
ExecFailsApplied(b, id, status, errorMsg, t) == ExecUpdate(b, id, status, errorMsg, t)

\* db.Exec returns an error: SQLite rolls the statement back.
ExecFails(b, id, status, errorMsg, t) == b

\* UpdateStatus returns the error of db.Exec.  ExecuteBuild returns it (the error
\* of the write of `failed` is dropped, and runSbuild's returned); RunWorker
\* prints the error and sleeps, a command exits with it.
UpdateStatusFails(p, status) ==
    /\ \/ pc[p] = "stampB" /\ status = StatusBuilding
       \/ pc[p] = "stampT" /\ status = exec[p].outcome[1]
       \/ pc[p] = "stampC" /\ status = StatusCancelled
    /\ builds' = ExecFails(builds, cur[p], status, "", now[p])
    /\ pc' = [ pc EXCEPT ![p] = "error" ]
    /\ now' = [ now EXCEPT ![p] = 0 ]
    /\ stale' = stale \ {p}
    /\ UNCHANGED <<seq, clock, cur, assigned, everBuilding, nStart, late, sync_state,
                   dispatch, crashed, exec, up, san, ref, cat, scan>>

\* RunWorker: after time.Sleep(5 * time.Second) the next iteration; the command is over.
Resume(p) ==
    /\ pc[p] = "error"
    /\ pc' = [ pc EXCEPT ![p] = "idle" ]
    /\ cur' = [ cur EXCEPT ![p] = 0 ]
    /\ UNCHANGED <<builds, seq, clock, now, assigned, everBuilding, nStart, stale, late,
                   sync_state, dispatch, crashed, exec, up, san, ref, cat, scan>>

\* ------------------------------------------- the dispatch command's life
\* Why buildCmd returns: --max-duration has passed, or GetStats found no row
\* queued and none building.
ReturnReasons == {"duration", "drained"}

\* buildCmd returns; its deferred close(stopChan) runs.
DispatchReturn(why) ==
    /\ dispatch = "run"
    /\ why = "drained" => (GetStats(builds).queued = 0 /\ GetStats(builds).building = 0)
    /\ dispatch' = "closed"
    /\ UNCHANGED <<builds, seq, clock, pc, cur, now, assigned, everBuilding, nStart, stale, late,
                   sync_state, crashed, exec, up, san, ref, cat, scan>>

\* RunWorker: the worker finds stopChan closed at the top of an iteration and returns.
WorkerStop(w) ==
    /\ pc[w] = "idle"
    /\ dispatch = "closed"
    /\ pc' = [ pc EXCEPT ![w] = "stopped" ]
    /\ UNCHANGED <<builds, seq, clock, cur, now, assigned, everBuilding, nStart, stale, late,
                   sync_state, dispatch, crashed, exec, up, san, ref, cat, scan>>

\* The ids of the rows a worker has written `building` and not yet written terminal.
InFlight == { cur[w] : w \in { v \in Workers : pc[v] \in {"running", "stampT"} } }

\* The process of the dispatch command goes away, and its goroutines (the
\* workers) with it, wherever they are.
ProcessGone ==
    /\ dispatch' = "exited"
    /\ pc' = [ p \in Procs |-> IF p \in Workers THEN "dead" ELSE pc[p] ]
    /\ cur' = [ p \in Procs |-> IF p \in Workers THEN 0 ELSE cur[p] ]
    /\ now' = [ p \in Procs |-> IF p \in Workers THEN 0 ELSE now[p] ]
    /\ exec' = [ p \in Procs |-> IF p \in Workers THEN NoExec ELSE exec[p] ]
    /\ stale' = stale \ Workers
    /\ crashed' = crashed \cup (InFlight \cap DOMAIN builds)
    /\ UNCHANGED <<builds, seq, clock, assigned, everBuilding, nStart, late, sync_state, up, san, ref, cat, scan>>

\* main returns once buildCmd has returned: the process exits.
DispatchExit ==
    /\ dispatch = "closed"
    /\ ProcessGone

\* The process is killed.
Kill ==
    /\ dispatch = "run"
    /\ ProcessGone

\* `buildctl build` is run again: new workers.
Restart ==
    /\ dispatch = "exited"
    /\ dispatch' = "run"
    /\ pc' = [ p \in Procs |-> IF p \in Workers THEN "idle" ELSE pc[p] ]
    /\ UNCHANGED <<builds, seq, clock, cur, now, assigned, everBuilding, nStart, stale, late,
                   sync_state, crashed, exec, up, san, ref, cat, scan>>

\* -------------------------------------------------------- specifications
\* The whole system while the clock runs: the workers of a dispatch command and
\* the other commands beside them.
Next ==
    \/ \E n \in Pkgs, a \in Archs, r \in Priorities, t \in clock..MaxClock :
        seq < MaxTimedBuilds /\ Add(n, a, r, FALSE, t)
    \/ \E s \in ClearArgs : Clear(s)
    \/ \E w \in Workers : WorkerGetNext(w)
    \/ \E w \in Workers : WorkerIdle(w)
    \/ \E id \in DOMAIN builds : BuildById(id)
    \/ \E p \in Procs, t \in clock..MaxClock : StampBuilding(p, t)
    \/ \E p \in Procs : WriteBuilding(p)
    \/ \E p \in Procs, t \in clock..MaxClock : Finish(p, t)
    \/ \E p \in Procs, o \in Outcomes : WriteTerminal(p, o)
    \/ \E id \in assigned, t \in clock..MaxClock : CancelStamp(id, t)
    \/ CancelWrite

Spec == Init /\ [][Next]_vars

\* One worker and the other commands beside it, while the clock runs.
Single == {"w1", Cli}

NextSingle ==
    \/ \E n \in Pkgs, t \in clock..MaxClock :
        seq < MaxTimedBuilds /\ Add(n, DispatchArch, DefaultPriority, FALSE, t)
    \/ \E s \in ClearArgs : Clear(s)
    \/ WorkerGetNext("w1")
    \/ WorkerIdle("w1")
    \/ \E id \in DOMAIN builds : BuildById(id)
    \/ \E p \in Single, t \in clock..MaxClock : StampBuilding(p, t)
    \/ \E p \in Single : WriteBuilding(p)
    \/ \E p \in Single, t \in clock..MaxClock : Finish(p, t)
    \/ \E p \in Single, o \in Outcomes : WriteTerminal(p, o)
    \/ \E id \in assigned, t \in clock..MaxClock : CancelStamp(id, t)
    \/ CancelWrite

SpecSingle == Init /\ [][NextSingle]_vars

\* Every operation of the store: one worker draining the queue and, beside it,
\* the commands that enqueue, cancel, clear, read and save the sync state, all
\* within one tick of the clock.
NextStore ==
    \/ \E n \in Pkgs : seq < MaxBuilds /\ Add(n, DispatchArch, DefaultPriority, FALSE, clock)
    \/ \E s \in ClearArgs : Clear(s)
    \/ \E s \in BuildStatus \cup {""} : ListCmd(s)
    \/ \E n \in Pkgs : StatusCmd(n)
    \/ StatsCmd
    \/ \E c \in RecipeCounts :
        Len(sync_state) < MaxSyncs /\ SaveSyncState(SyncRepo, SyncCommit, c, clock)
    \/ LastSyncStateCmd(SyncRepo)
    \/ WorkerGetNext("w1")
    \/ WorkerIdle("w1")
    \/ StampBuilding("w1", clock)
    \/ WriteBuilding("w1")
    \/ Finish("w1", clock)
    \/ \E o \in Outcomes : WriteTerminal("w1", o)
    \/ \E id \in assigned : CancelStamp(id, clock)
    \/ CancelWrite

SpecStore == Init /\ [][NextStore]_vars

\* A worker draining a pool of queued rows enqueued earlier, whatever their
\* created_at (the wall clock CURRENT_TIMESTAMP reads may have been set back
\* between two enqueues); each row it gets is transitioned before its next GetNext.
DispatchPool ==
    [ pkg_name : Pkgs, arch : Archs, priority : Priorities, force_build : {FALSE},
      status : {StatusQueued},
      created_at : { s * TicksPerSec : s \in 0..MaxCreatedSec },
      started_at : {NULL}, completed_at : {NULL},
      duration_seconds : {NULL}, error_message : {NULL} ]

InitDispatch ==
    /\ builds \in [ 1..DispatchRows -> DispatchPool ]
    /\ seq = DispatchRows
    /\ clock = MaxCreatedSec * TicksPerSec
    /\ pc = [ p \in Procs |-> "idle" ]
    /\ cur = [ p \in Procs |-> 0 ]
    /\ now = [ p \in Procs |-> 0 ]
    /\ assigned = 1..DispatchRows
    /\ everBuilding = {}
    /\ nStart = [ i \in 1..DispatchRows |-> 0 ]
    /\ stale = {}
    /\ late = {}
    /\ sync_state = << >>
    /\ dispatch = "run"
    /\ crashed = {}
    /\ exec = [ p \in Procs |-> NoExec ]
    /\ up = NoUpload
    /\ san = NoSanitize
    /\ ref = NoRef
    /\ cat = NoCatalogue
    /\ scan = NoScan

NextDispatch ==
    \/ WorkerGetNext("w1")
    \/ WorkerIdle("w1")
    \/ StampBuilding("w1", clock)
    \/ WriteBuilding("w1")
    \/ Finish("w1", clock)
    \/ \E o \in Outcomes : WriteTerminal("w1", o)

SpecDispatch == InitDispatch /\ [][NextDispatch]_vars

\* The life of a dispatch command with one worker (the second one stops or dies
\* idle), cancels beside it, within one tick of the clock.
NextLife ==
    \/ \E n \in Pkgs : seq < MaxBuilds /\ Add(n, DispatchArch, DefaultPriority, FALSE, clock)
    \/ \E s \in ClearArgs : Clear(s)
    \/ WorkerGetNext("w1")
    \/ WorkerIdle("w1")
    \/ StampBuilding("w1", clock)
    \/ WriteBuilding("w1")
    \/ Finish("w1", clock)
    \/ \E o \in Outcomes : WriteTerminal("w1", o)
    \/ \E id \in assigned : CancelStamp(id, clock)
    \/ CancelWrite
    \/ \E why \in ReturnReasons : DispatchReturn(why)
    \/ \E w \in Workers : WorkerStop(w)
    \/ DispatchExit
    \/ Kill
    \/ Restart

SpecLife == Init /\ [][NextLife]_vars

\* One worker running builds step by step through ExecuteBuild and runSbuild,
\* and writes that fail, within one tick of the clock.
NextExec ==
    \/ \E n \in Pkgs : seq < MaxTimedBuilds /\ Add(n, DispatchArch, DefaultPriority, FALSE, clock)
    \/ WorkerGetNext("w1")
    \/ WorkerIdle("w1")
    \/ StampBuilding("w1", clock)
    \/ WriteBuilding("w1")
    \/ \E ok \in BOOLEAN : CreateLog("w1", ok)
    \/ \E ok \in BOOLEAN : LookPath("w1", ok)
    \/ \E ok \in BOOLEAN : StatRecipe("w1", ok)
    \/ \E ok \in BOOLEAN : StartDriver("w1", ok)
    \/ \E s \in Streams, n \in LineLens : DriverWrite("w1", s, n)
    \/ \E code \in {0, 1} : DriverExit("w1", code)
    \/ \E s \in Streams : CopyLine("w1", s)
    \/ \E s \in Streams : CopierEnd("w1", s)
    \/ Wait("w1")
    \/ \E readable \in BOOLEAN : ReadLog("w1", readable)
    \/ FinishRun("w1", clock)
    \/ WriteOutcome("w1")
    \/ \E st \in BuildStatus : UpdateStatusFails("w1", st)
    \/ Resume("w1")

SpecExec == Init /\ [][NextExec]_vars

\* The worker is not killed, goes on through ExecuteBuild, and the driver exits.
RunSteps ==
    \/ \E ok \in BOOLEAN : CreateLog("w1", ok)
    \/ \E ok \in BOOLEAN : LookPath("w1", ok)
    \/ \E ok \in BOOLEAN : StatRecipe("w1", ok)
    \/ \E ok \in BOOLEAN : StartDriver("w1", ok)
    \/ \E code \in {0, 1} : DriverExit("w1", code)
    \/ Wait("w1")
    \/ \E readable \in BOOLEAN : ReadLog("w1", readable)
    \/ FinishRun("w1", clock)
    \/ WriteOutcome("w1")

SpecExecFair == SpecExec /\ WF_vars(RunSteps)

\* ---------------------------------------------------------------- claims
\* The edges of the status graph of invariant I1.
Edges ==
    { <<StatusQueued, StatusBuilding>>, <<StatusQueued, StatusCancelled>>,
      <<StatusBuilding, StatusSucceeded>>, <<StatusBuilding, StatusFailed>>,
      <<StatusBuilding, StatusCancelled>> }

Stamped(id, field) == ~IsNull(builds[id][field])

\* C1: no build id is written `building` by the workers more than once, and no
\* two workers are running the build of the same row at the same time.
MutualExclusion ==
    /\ \A id \in DOMAIN nStart : nStart[id] <= 1
    /\ \A w1 \in Workers, w2 \in Workers :
        (w1 # w2 /\ pc[w1] \in {"running", "stampT"} /\ pc[w2] \in {"running", "stampT"})
            => cur[w1] # cur[w2]

\* C2: every change of a row's status is an edge of the status graph: queued ->
\* building | cancelled, building -> succeeded | failed | cancelled, and a
\* terminal status never changes.
StateMachine ==
    [][ \A id \in DOMAIN builds \cap DOMAIN builds' :
          builds[id].status # builds'[id].status
            => <<builds[id].status, builds'[id].status>> \in Edges ]_vars

\* C3: for every arch, GetNext returns nothing iff no queued row of that arch
\* exists, and a row it returns is queued, of that arch, of the highest priority
\* among those and, among the rows of that priority, of the earliest created_at.
\* In the pool (id 1, p 10, T), (id 2, p 100, T+1), (id 3, p 10, T-1) the worker
\* gets id 2, then id 3, then id 1.
ExamplePool ==
    /\ {1, 2, 3} \subseteq DOMAIN builds
    /\ \A i \in DOMAIN builds : builds[i].arch = DispatchArch <=> i \in {1, 2, 3}
    /\ builds[1].priority = DefaultPriority /\ builds[1].created_at = TicksPerSec
    /\ builds[2].priority = ForcePriority /\ builds[2].created_at = 2 * TicksPerSec
    /\ builds[3].priority = DefaultPriority /\ builds[3].created_at = 0

Queued(id) == builds[id].status = StatusQueued

DispatchOrder ==
    /\ \A a \in Archs :
        /\ GetNext(builds, a) = {}
            <=> ~ \E j \in DOMAIN builds : Queued(j) /\ builds[j].arch = a
        /\ \A i \in GetNext(builds, a) :
            /\ i \in DOMAIN builds /\ Queued(i) /\ builds[i].arch = a
            /\ \A j \in DOMAIN builds :
                (Queued(j) /\ builds[j].arch = a) =>
                    /\ builds[i].priority >= builds[j].priority
                    /\ builds[i].priority = builds[j].priority
                        => builds[i].created_at <= builds[j].created_at
    /\ ExamplePool =>
        /\ GetNext(builds, DispatchArch) =
            IF Queued(2) THEN {2} ELSE IF Queued(3) THEN {3} ELSE IF Queued(1) THEN {1} ELSE {}
        /\ cur["w1"] = 3 => ~Queued(2)
        /\ cur["w1"] = 1 => ~Queued(2) /\ ~Queued(3)

DispatchOrderWitness ==
    /\ ExamplePool
    /\ builds[2].status \in Terminal /\ builds[3].status \in Terminal
    /\ pc["w1"] = "claimed" /\ cur["w1"] = 1

\* C4: a worker never writes `building` to (and then runs the driver for) a row
\* that was cancelled while it was still queued.
CancelledNeverStarted ==
    [][ \A w \in Workers :
          ~ ( /\ pc[w] = "stampB" /\ pc'[w] = "running"
              /\ cur[w] \in DOMAIN builds
              /\ builds[cur[w]].status = StatusCancelled
              /\ cur[w] \notin everBuilding ) ]_vars

\* C5: a row has started_at iff its status has at some point been `building`.
StartedIffEverBuilding ==
    \A id \in DOMAIN builds : Stamped(id, "started_at") <=> id \in everBuilding

StartedIffEverBuildingWitness ==
    \E id \in DOMAIN builds :
        /\ id \in everBuilding /\ builds[id].status = StatusCancelled
        /\ Stamped(id, "started_at")

\* C6: a row has completed_at iff its status is succeeded, failed or cancelled.
CompletedIffTerminal ==
    \A id \in DOMAIN builds : Stamped(id, "completed_at") <=> builds[id].status \in Terminal

DurationIsFloor ==
    \A id \in DOMAIN builds :
        (Stamped(id, "started_at") /\ Stamped(id, "completed_at")) =>
            builds[id].duration_seconds =
                << (Val(builds[id].completed_at) - Val(builds[id].started_at)) \div TicksPerSec >>

\* C9: a step that removes a row is a step of Clear.
OnlyClearRemoves ==
    [][ ~(DOMAIN builds \subseteq DOMAIN builds') => \E s \in ClearArgs : Clear(s) ]_vars

OnlyClearRemovesWitness ==
    /\ \E id \in assigned : id \notin DOMAIN builds
    /\ sync_state # << >>
    /\ \E id \in DOMAIN builds : builds[id].status = StatusCancelled /\ id \in everBuilding

\* C10: a step that enqueues adds exactly one row and changes no other; the new
\* row's id was never assigned before and is larger than every id assigned before,
\* also those of rows removed since; the new row is queued, without started_at
\* and completed_at.
EnqueueFreshId ==
    [][ LET New == DOMAIN builds' \ DOMAIN builds IN
        (New # {} \/ assigned' # assigned) =>
            /\ Cardinality(New) = 1
            /\ \A id \in New :
                /\ id \notin assigned
                /\ \A j \in assigned : id > j
                /\ assigned' = assigned \cup {id}
                /\ builds'[id].status = StatusQueued
                /\ IsNull(builds'[id].started_at)
                /\ IsNull(builds'[id].completed_at)
            /\ \A i \in DOMAIN builds : i \in DOMAIN builds' /\ builds'[i] = builds[i] ]_vars

\* A row enqueued after the row of an earlier enqueue of the same package and
\* arch was removed.
EnqueueFreshIdWitness ==
    \E id \in DOMAIN builds : \E j \in assigned :
        /\ j \notin DOMAIN builds /\ j < id
        /\ Queued(id)

\* C11: a row whose worker's process went away between the write of `building`
\* and the terminal write is `building` with started_at and without completed_at
\* (unless a cancel was applied meanwhile), is listed and counted as `building`,
\* is not returned by GetNext for any arch, and is changed or removed afterwards
\* by a cancel or a clear only.
CrashLeavesBuilding ==
    [][ \A id \in crashed' :
          /\ (id \notin crashed /\ builds'[id].status # StatusCancelled) =>
                /\ builds'[id].status = StatusBuilding
                /\ ~IsNull(builds'[id].started_at)
                /\ IsNull(builds'[id].completed_at)
                /\ id \in List(builds', StatusBuilding)
                /\ GetStats(builds').building >= 1
          /\ (id \in DOMAIN builds' /\ builds'[id].status = StatusBuilding) =>
                \A a \in Archs : id \notin GetNext(builds', a)
          /\ (id \in crashed /\ id \in DOMAIN builds) =>
                \/ id \in DOMAIN builds' /\ builds'[id] = builds[id]
                \/ \E s \in ClearArgs : Clear(s)
                \/ cur[Cli] = id /\ CancelWrite ]_vars

\* C12: once stopChan is closed no worker takes a row from GetNext, and the exit
\* of the dispatch command after its return ends no worker between its GetNext
\* and its terminal write.
StopKeepsInFlight ==
    [][ /\ dispatch # "run" => \A w \in Workers : ~(pc[w] = "idle" /\ pc'[w] = "claimed")
        /\ DispatchExit =>
              \A w \in Workers : pc[w] \notin {"claimed", "stampB", "running", "stampT"} ]_vars

\* C13: when a process reads the log's tail, and when it takes the time of its
\* terminal write, neither copier of its driver run is still copying.
CopiersJoined ==
    [][ \A p \in Procs :
          ( \/ exec[p].step = "failed" /\ exec'[p].step = "result"
            \/ pc[p] = "running" /\ pc'[p] = "stampT" )
            => \A s \in Streams : exec[p].copier[s] # "copying" ]_vars

Min(a, b) == IF a <= b THEN a ELSE b

\* C14: a worker that wrote `building` goes on to its terminal write, and that
\* write leaves the row succeeded iff the driver was run and exited with 0,
\* failed otherwise, with the last min(500, length) bytes of the log as read for
\* error message when the log was readable.
BuildOutcome ==
    /\ [][ \A w \in Workers :
            (pc[w] = "stampT" /\ pc'[w] = "idle" /\ cur[w] \in DOMAIN builds) =>
              LET row == builds'[cur[w]] IN
                /\ row.status \in {StatusSucceeded, StatusFailed}
                /\ row.status = StatusSucceeded <=> exec[w].code = 0
                /\ (row.status = StatusFailed /\ ~IsNull(exec[w].read)) =>
                     LET len == Val(exec[w].read) IN
                       row.error_message = << LogBytes(len - Min(TailLimit, len), len) >> ]_vars
    /\ \A w \in Workers : (pc[w] = "running") ~> (pc[w] \in {"idle", "error"})

BuildOutcomeWitness ==
    \E id \in DOMAIN builds :
        /\ builds[id].status = StatusFailed
        /\ builds[id].error_message = << LogBytes(1, TailLimit + 1) >>
        /\ pc["w1"] = "idle"

\* C15: a write that fails changes no row; the process that called it leaves
\* ExecuteBuild without a further step of the driver run, and a row that was
\* queued at a failed write of `building` is still a candidate of GetNext.
FailedWriteNoChange ==
    [][ \A p \in Procs :
          /\ (pc[p] # "error" /\ pc'[p] = "error") =>
                /\ builds' = builds /\ sync_state' = sync_state
                /\ exec' = exec
                /\ (pc[p] = "stampB" /\ cur[p] \in DOMAIN builds
                        /\ builds[cur[p]].status = StatusQueued)
                     => cur[p] \in Candidates(builds', builds[cur[p]].arch)
          /\ pc[p] = "error" =>
                (pc'[p] \in {"error", "idle"} /\ exec'[p].step = exec[p].step) ]_vars

FailedWriteNoChangeWitness ==
    /\ pc["w1"] = "error" /\ exec["w1"].step = "none"
    /\ cur["w1"] \in GetNext(builds, DispatchArch)

\* ============================================================ the publisher
\* Uploader.UploadPackage (internal/ghcr), one statement group per action.

\* Mutant: the last part is stripped whatever stands before it.
StripExtensionAlways(targetName) ==
    IF ContainsDot(targetName) /\ BeforeLastDot(targetName) # EmptyName
    THEN BeforeLastDot(targetName)
    ELSE targetName

\* determineUploadTargets's stripping of pkg: idx := strings.LastIndex(name, ".")
\* is > 0 when something stands before the last dot.
StripExtension(targetName) ==
    IF /\ ContainsDot(targetName)
       /\ BeforeLastDot(targetName) # EmptyName
       /\ ~ContainsDot(BeforeLastDot(targetName))
    THEN BeforeLastDot(targetName)
    ELSE targetName

determineUploadTargets(pkgInfo) ==
    IF Len(pkgInfo.Provides) > 1 THEN pkgInfo.Provides
    ELSE LET targetName ==
                 IF Len(pkgInfo.Provides) = 1 /\ pkgInfo.Provides[1] # EmptyName
                     THEN pkgInfo.Provides[1]
                 ELSE IF pkgInfo.PkgName # EmptyName THEN pkgInfo.PkgName
                 ELSE IF pkgInfo.PkgFamily # EmptyName THEN pkgInfo.PkgFamily
                 ELSE IF pkgInfo.Pkg # EmptyName THEN StripExtension(pkgInfo.Pkg)
                 ELSE EmptyName
         IN  IF targetName # EmptyName THEN <<targetName>> ELSE << >>

\* Mutant: any file named as another entry of provides, with an extension or not.
isOtherBinaryAnyName(pkgInfo, fileName, targetName) ==
    /\ Len(pkgInfo.Provides) > 1
    /\ \E i \in 1..Len(pkgInfo.Provides) :
           /\ fileName = pkgInfo.Provides[i]
           /\ pkgInfo.Provides[i] # targetName

\* uploadSinglePackage: fileName is another provided binary than the target.
isOtherBinary(pkgInfo, fileName, targetName) ==
    /\ Len(pkgInfo.Provides) > 1
    /\ \E i \in 1..Len(pkgInfo.Provides) :
           /\ fileName = pkgInfo.Provides[i]
           /\ pkgInfo.Provides[i] # targetName
           /\ ~ContainsDot(fileName)

\* uploadSinglePackage: the file arguments of the push of targetName; an entry
\* os.Stat fails for (it is gone from the directory) or a directory is skipped.
PushArgs(u, targetName) ==
    { f \in u.files : f \in u.dir /\ ~IsDir(f) /\ ~isOtherBinary(u.info, f, targetName) }

\* UploadPackage: the pushes that succeeded.
successCount(pushes) == Cardinality({ i \in 1..Len(pushes) : pushes[i].ok })

\* The queue's variables; queueVars is all that UploadPackage leaves alone.
storeVars == <<builds, seq, clock, pc, cur, now, assigned, everBuilding, nStart, stale, late,
               sync_state, dispatch, crashed, exec>>
queueVars == <<builds, seq, clock, pc, cur, now, assigned, everBuilding, nStart, stale, late,
               sync_state, dispatch, crashed, exec, san, ref, cat, scan>>

\* UploadPackage returns err ("nil": no error).
Return(u, err) == [ u EXCEPT !.step = "done", !.ret = err ]

\* os.Stat(pkgDir): a directory that does not exist has no entries.
StatPkgDir(exists) ==
    /\ up.step = "stat"
    /\ ~exists => up.dir = {}
    /\ up' = IF exists THEN [ up EXCEPT !.step = "list" ] ELSE Return(up, NotFoundMsg)
    /\ UNCHANGED queueVars

\* files, err := filepath.Glob(pkgDir/*): it fails on a malformed pattern only;
\* the directory must hold one entry at least.
ListFiles(ok) ==
    /\ up.step = "list"
    /\ up' = IF ~ok THEN Return(up, BadPatternMsg)
             ELSE IF up.dir = {} THEN Return(up, NoFilesMsg)
             ELSE [ up EXCEPT !.step = "meta", !.files = up.dir ]
    /\ UNCHANGED queueVars

\* Mutant: one metadata file for the whole package, named after the first target.
MetadataFilesFirstOnly(uploadTargets, written) ==
    { WithExt(uploadTargets[i], "json") : i \in 1..(IF written > 0 THEN 1 ELSE 0) }

\* generateSingleMetadataJSON's files for the first `written` targets: jsonPath
\* is pkgDir/<targetName>.json.
MetadataFiles(uploadTargets, written) ==
    { WithExt(uploadTargets[i], "json") : i \in 1..written }

\* generateMetadataJSON: nothing is written when the directory holds a *.json
\* already; else <target>.json is written for the targets in turn, up to the
\* first one whose generateSingleMetadataJSON fails (written of them succeed).
GenerateMetadata(written) ==
    /\ up.step = "meta"
    /\ LET jsonFiles == { f \in up.dir : HasSuffix(f, "json") }
           uploadTargets == determineUploadTargets(up.info)
           new == MetadataFiles(uploadTargets, written)
       IN  IF jsonFiles # {}
           THEN written = 0 /\ up' = [ up EXCEPT !.step = "sign" ]
           ELSE IF Len(uploadTargets) = 0
           THEN written = 0 /\ up' = [ up EXCEPT !.step = "sign", !.metaErr = NoTargetsFoundMsg ]
           ELSE /\ written \in 0..Len(uploadTargets)
                /\ up' = [ up EXCEPT !.step = "sign",
                                     !.dir = up.dir \cup new,
                                     !.generated = new,
                                     !.metaErr = IF written < Len(uploadTargets)
                                                 THEN WriteFailedMsg ELSE "" ]
    /\ UNCHANGED queueVars

\* signPackageFiles(files): without the tool or the key it returns an error;
\* else minisign writes <file>.sig for every regular file of the list that is
\* no signature, but for those (bad) its call fails for.
SignFiles(env, bad) ==
    /\ up.step = "sign"
    /\ LET signable == { f \in up.files : f \in up.dir /\ ~IsDir(f) /\ ~HasSuffix(f, "sig") }
       IN  IF env # SignOk
           THEN bad = {} /\ up' = [ up EXCEPT !.step = "rescan", !.signErr = env ]
           ELSE /\ bad \subseteq signable
                /\ up' = [ up EXCEPT !.step = "rescan",
                                     !.dir = up.dir \cup { WithExt(f, "sig") : f \in signable \ bad },
                                     !.unsigned = bad,
                                     !.signed = TRUE ]
    /\ UNCHANGED queueVars

\* files, err = filepath.Glob(pkgDir/*) again: the pattern is the one that was
\* well-formed before.
Rescan ==
    /\ up.step = "rescan"
    /\ up' = [ up EXCEPT !.step = "targets", !.files = up.dir ]
    /\ UNCHANGED queueVars

\* uploadTargets := determineUploadTargets(pkgInfo), and the return without one.
DetermineTargets ==
    /\ up.step = "targets"
    /\ LET uploadTargets == determineUploadTargets(up.info)
       IN  up' = IF Len(uploadTargets) = 0 THEN Return(up, NoTargetsMsg)
                 ELSE [ up EXCEPT !.step = "push", !.targets = uploadTargets ]
    /\ UNCHANGED queueVars

\* One iteration of the loop over uploadTargets: uploadSinglePackage runs the
\* push tool, which succeeds (ok) or not.
PushTarget(ok) ==
    /\ up.step = "push"
    /\ Len(up.pushes) < Len(up.targets)
    /\ LET targetName == up.targets[Len(up.pushes) + 1]
       IN  up' = [ up EXCEPT !.pushes = Append(up.pushes,
                       [ target |-> targetName, files |-> PushArgs(up, targetName), ok |-> ok ]) ]
    /\ UNCHANGED queueVars

\* Mutant: the upload fails as soon as one push failed.
UploadResultStrict(pushes) ==
    IF successCount(pushes) < Len(pushes) THEN AllFailedMsg ELSE "nil"

\* After the loop: an error when no push succeeded, nil otherwise.
UploadResult(pushes) ==
    IF successCount(pushes) = 0 THEN AllFailedMsg ELSE "nil"

\* The end of UploadPackage; it warns when some pushes failed and some succeeded.
ReturnResult ==
    /\ up.step = "push"
    /\ Len(up.pushes) = Len(up.targets)
    /\ up' = [ Return(up, UploadResult(up.pushes))
               EXCEPT !.warned = /\ successCount(up.pushes) > 0
                                 /\ successCount(up.pushes) < Len(up.pushes) ]
    /\ UNCHANGED queueVars

\* One upload of a package providing several binaries, whatever the driver left
\* in the directory; or of a package providing one at most, whatever its names.
SingleDirs == { {Cal}, {Cal, CalJson} }
UploadInputs ==
    { NewUpload(info, dir) : info \in FanOutInfos, dir \in SUBSET DirPool }
        \cup { NewUpload(info, dir) : info \in SingleInfos, dir \in SingleDirs }

\* The longest list of targets an input has.
MaxTargets == Max({ Len(determineUploadTargets(u.info)) : u \in UploadInputs })

InitUpload ==
    /\ builds = << >>
    /\ seq = 0
    /\ clock = 0
    /\ pc = [ p \in Procs |-> "idle" ]
    /\ cur = [ p \in Procs |-> 0 ]
    /\ now = [ p \in Procs |-> 0 ]
    /\ assigned = {}
    /\ everBuilding = {}
    /\ nStart = << >>
    /\ stale = {}
    /\ late = {}
    /\ sync_state = << >>
    /\ dispatch = "run"
    /\ crashed = {}
    /\ exec = [ p \in Procs |-> NoExec ]
    /\ up \in UploadInputs
    /\ san = NoSanitize
    /\ ref = NoRef
    /\ cat = NoCatalogue
    /\ scan = NoScan

NextUpload ==
    \/ \E exists \in BOOLEAN : StatPkgDir(exists)
    \/ \E ok \in BOOLEAN : ListFiles(ok)
    \/ \E written \in 0..MaxTargets : GenerateMetadata(written)
    \/ \E env \in SignEnvs, bad \in SUBSET DirPool : SignFiles(env, bad)
    \/ Rescan
    \/ DetermineTargets
    \/ \E ok \in BOOLEAN : PushTarget(ok)
    \/ ReturnResult

SpecUpload == InitUpload /\ [][NextUpload]_vars

\* ------------------------------------------------------------ the claims
\* The *.json files the upload found in the directory (it generates some only
\* when it found none).
DriverJson(u) == { f \in u.dir \ u.generated : HasSuffix(f, "json") }
\* <p>.json for the entries p of a list of names.
JsonOf(names) == { WithExt(names[i], "json") : i \in 1..Len(names) }

FileSelection ==
    \A i \in 1..Len(up.pushes) :
        LET t == up.pushes[i].target
            P == { up.info.Provides[j] : j \in 1..Len(up.info.Provides) }
        IN  /\ \A f \in up.dir :
                   ~IsDir(f) =>
                       ( f \in up.pushes[i].files
                           <=> ~(\E p \in P : f = p /\ p # t /\ ~ContainsDot(f)) )
            /\ \A f \in up.dir : (~IsDir(f) /\ ContainsDot(f)) => f \in up.pushes[i].files
            /\ \A f \in up.pushes[i].files : f \in up.dir /\ ~IsDir(f)

\* The push of cal leaves out the file printf and takes cal, cal.sig and the
\* generated printf.json; the push of printf leaves out cal.
FileSelectionWitness ==
    /\ up.step = "done"
    /\ up.info.Provides = <<Cal, Printf>>
    /\ {Cal, Printf, CalSig, TmpDir} \subseteq up.dir
    /\ Len(up.pushes) = 2
    /\ {Cal, CalSig, WithExt(Printf, "json")} \subseteq up.pushes[1].files
    /\ Printf \notin up.pushes[1].files
    /\ Cal \notin up.pushes[2].files

\* pkg without its last dot-separated part when what stands before has no dot.
StatedStrip(name) ==
    IF ContainsDot(name) /\ ~ContainsDot(BeforeLastDot(name)) THEN BeforeLastDot(name) ELSE name
\* The same, for a pkg with something before its only dot.
AmendedStrip(name) ==
    IF ContainsDot(name) /\ ~ContainsDot(BeforeLastDot(name)) /\ BeforeLastDot(name) # EmptyName
    THEN BeforeLastDot(name) ELSE name
\* The list of targets the fan-out policy states for a PackageInfo, pkg being
\* stripped as strip does.
StatedTargets(info, strip(_)) ==
    CASE Len(info.Provides) > 1 -> info.Provides
      [] Len(info.Provides) = 1 /\ info.Provides[1] # EmptyName -> <<info.Provides[1]>>
      [] OTHER ->
           CASE info.PkgName # EmptyName -> <<info.PkgName>>
             [] info.PkgName = EmptyName /\ info.PkgFamily # EmptyName -> <<info.PkgFamily>>
             [] info.PkgName = EmptyName /\ info.PkgFamily = EmptyName /\ info.Pkg # EmptyName
                    -> <<strip(info.Pkg)>>
             [] OTHER -> << >>
\* The upload has determined its targets: it pushes, or it has returned after
\* listing the directory.
TargetsDetermined == up.files # {} /\ up.step \in {"push", "done"}
\* What C18 says of the targets, pkg being stripped as strip does: the upload
\* pushes to the stated targets, and where none is stated it has returned
\* "no upload targets determined" without a push.
TargetsAsStated(strip(_)) ==
    TargetsDetermined =>
        LET T == StatedTargets(up.info, strip)
        IN  /\ T # << >> => up.targets = T
            /\ T = << >> => up.step = "done" /\ up.ret = NoTargetsMsg /\ up.pushes = << >>
            /\ \A i \in 1..Len(up.pushes) : up.pushes[i].target = T[i]

\* C18 as stated: once an upload has determined its targets they are provides
\* when |provides| > 1; else provides[0] when it is the one entry and non-empty;
\* else pkg_name, else pkg_family, when non-empty; else pkg without its last
\* dot-separated part when the part before has no dot; else there is none and
\* the upload returns "no upload targets determined" without any push.
UploadTargets == TargetsAsStated(StatedStrip)

\* C18 amended: the same, pkg losing its last dot-separated part only when
\* what stands before it is non-empty and has no dot (".x" stays ".x").
UploadTargetsAmended == TargetsAsStated(AmendedStrip)

\* The target is pkg without its extension: "bat" for pkg "bat.static".
UploadTargetsWitness ==
    /\ up.step = "done"
    /\ up.info.Provides = <<EmptyName>>
    /\ up.info.PkgName = EmptyName
    /\ up.info.PkgFamily = EmptyName
    /\ up.info.Pkg = <<"bat", "static">>
    /\ Len(up.pushes) = 1
    /\ up.pushes[1].target = <<"bat">>

\* C19: once signPackageFiles has returned in a run in which the tool and the
\* key were available and every signing call succeeded, every regular file of
\* the package directory that is no signature has <file>.sig beside it, the
\* metadata JSON files generated in the same run included, and each of these
\* signatures is among the files of every push.
AllSigned ==
    (up.signed /\ up.unsigned = {}) =>
        \A f \in up.dir :
            (~IsDir(f) /\ ~HasSuffix(f, "sig")) =>
                /\ WithExt(f, "sig") \in up.dir
                /\ \A i \in 1..Len(up.pushes) : WithExt(f, "sig") \in up.pushes[i].files

\* C20: a finished upload that listed the package directory has attempted one
\* push for every target, in order, whatever became of the earlier pushes and
\* whether or not signing or the generation of the metadata failed; a finished
\* upload has returned an error if and only if no push succeeded, and nil with
\* a warning when some pushes succeeded and some failed.
UploadAccounting ==
    LET T == determineUploadTargets(up.info)
        succeeded == { i \in 1..Len(up.pushes) : up.pushes[i].ok }
        failed == { i \in 1..Len(up.pushes) : ~up.pushes[i].ok }
    IN  up.step = "done" =>
            /\ up.files # {} =>
                   /\ Len(up.pushes) = Len(T)
                   /\ \A i \in 1..Len(T) : up.pushes[i].target = T[i]
            /\ up.ret # "nil" <=> succeeded = {}
            /\ (succeeded # {} /\ failed # {}) => up.warned
            /\ up.warned => (up.ret = "nil" /\ failed # {})

\* Metadata generation and signing failed, the first push failed, the second
\* was attempted and succeeded: the upload returns nil with a warning.
UploadAccountingWitness ==
    /\ up.step = "done"
    /\ up.metaErr # ""
    /\ up.signErr # ""
    /\ Len(up.pushes) = 2
    /\ ~up.pushes[1].ok
    /\ up.pushes[2].ok
    /\ up.ret = "nil"
    /\ up.warned

\* ====================================================== names and tags (ghcr)
\* Here a string is the sequence of its characters.  Slash stands for every
\* character that is valid neither in a path segment nor in a tag ("/", a
\* non-ASCII letter such as Alpha, an invalid byte).
Lowers == {"a", "b", "c", "e", "f", "l", "o", "s", "t"}
Uppers == {"A"}
Digits == {"0", "1", "2"}
Alpha == "alpha"
Alphabet == {"a", "A", "_", "-", ".", "/"}

\* strings.ToLower, a character at a time.
ToLower(ch) == IF ch = "A" THEN "a" ELSE ch
MapChars(f(_), str) == [ i \in 1..Len(str) |-> f(str[i]) ]

RECURSIVE TrimLeft(_, _)
\* strings.TrimLeft(str, cutset)
TrimLeft(str, cutset) ==
    IF str # << >> /\ Head(str) \in cutset THEN TrimLeft(Tail(str), cutset) ELSE str

RECURSIVE TrimRight(_, _)
\* strings.TrimRight(str, cutset)
TrimRight(str, cutset) ==
    IF str # << >> /\ str[Len(str)] \in cutset
    THEN TrimRight(SubSeq(str, 1, Len(str) - 1), cutset) ELSE str

\* Mutant: only the leading characters are trimmed.
TrimLeading(str, cutset) == TrimLeft(str, cutset)

\* strings.Trim(str, cutset)
Trim(str, cutset) == TrimRight(TrimLeft(str, cutset), cutset)

\* strings.Contains(str, old) for a string old of two characters
ContainsPair(str, old) == \E i \in 1..(Len(str) - 1) : str[i] = old[1] /\ str[i + 1] = old[2]

RECURSIVE ReplaceAll(_, _, _)
\* strings.ReplaceAll(str, old, new) for old of two characters and new of one:
\* the occurrences are taken from the left and do not overlap.
ReplaceAll(str, old, new) ==
    IF Len(str) < 2 THEN str
    ELSE IF str[1] = old[1] /\ str[2] = old[2]
         THEN <<new>> \o ReplaceAll(SubSeq(str, 3, Len(str)), old, new)
         ELSE <<str[1]>> \o ReplaceAll(Tail(str), old, new)

\* One round of sanitizePackageName's loop.
CollapseRound(str) ==
    ReplaceAll(ReplaceAll(ReplaceAll(ReplaceAll(str, <<"-", "-">>, "-"),
                                     <<"_", "_">>, "_"), <<"_", "-">>, "-"), <<"-", "_">>, "-")

HasRun(str) ==
    \/ ContainsPair(str, <<"-", "-">>)
    \/ ContainsPair(str, <<"_", "_">>)
    \/ ContainsPair(str, <<"_", "-">>)
    \/ ContainsPair(str, <<"-", "_">>)

\* Mutant: one round, whatever it leaves.
CollapseOnce(str) == CollapseRound(str)

RECURSIVE Collapse(_)
\* sanitizePackageName's loop: rounds while a run is left.
Collapse(str) == IF HasRun(str) THEN Collapse(CollapseRound(str)) ELSE str

\* sanitizePackageName's character loop, after the dots became hyphens.
PkgChar(ch) == IF ch \in Lowers \cup Digits \cup {"_", "-"} THEN ch ELSE "-"
DotToHyphen(ch) == IF ch = "." THEN "-" ELSE ch

sanitizePackageName(name) ==
    IF name = << >> THEN name
    ELSE Collapse(Trim(MapChars(PkgChar, MapChars(DotToHyphen, MapChars(ToLower, name))),
                       {"-", "_"}))

\* sanitizeVersion's character loop.
VerChar(ch) == IF ch \in Lowers \cup Uppers \cup Digits \cup {"_", ".", "-"} THEN ch ELSE "_"
Latest == <<"l", "a", "t", "e", "s", "t">>

sanitizeVersion(version) ==
    IF version = << >> THEN version
    ELSE LET sanitized == TrimLeft(MapChars(VerChar, version), {".", "-"})
         IN  IF sanitized = << >> THEN Latest ELSE sanitized

\* The strings of at most n characters over Alphabet.
RECURSIVE StringsUpTo(_)
StringsUpTo(n) ==
    IF n = 0 THEN { << >> }
    ELSE LET shorter == StringsUpTo(n - 1)
         IN  shorter \cup { Append(str, ch) : str \in shorter, ch \in Alphabet }

\* The strings of the specification's examples, and one with a run of three.
Examples ==
    { <<"a", ".", "b", ".", ".", "c">>, <<"1", ".", "2", "/", Alpha>>, <<"-", "f", "o", "o">>,
      <<"a", "-", "-", "-", "b">> }

SanitizeInputs == StringsUpTo(MaxStrLen) \cup Examples

\* A sanitizer is applied to a string, then to what it returned.
InitSanitize ==
    /\ builds = << >>
    /\ seq = 0
    /\ clock = 0
    /\ pc = [ p \in Procs |-> "idle" ]
    /\ cur = [ p \in Procs |-> 0 ]
    /\ now = [ p \in Procs |-> 0 ]
    /\ assigned = {}
    /\ everBuilding = {}
    /\ nStart = << >>
    /\ stale = {}
    /\ late = {}
    /\ sync_state = << >>
    /\ dispatch = "run"
    /\ crashed = {}
    /\ exec = [ p \in Procs |-> NoExec ]
    /\ up = NoUpload
    /\ san \in [ fn : {"pkg", "ver"}, input : SanitizeInputs, outs : { << >> } ]
    /\ ref = NoRef
    /\ cat = NoCatalogue
    /\ scan = NoScan

\* What the sanitizer is applied to next.
SanitizeArg == IF san.outs = << >> THEN san.input ELSE san.outs[Len(san.outs)]

SanitizePackageName ==
    /\ san.fn = "pkg"
    /\ Len(san.outs) < 2
    /\ san' = [ san EXCEPT !.outs = Append(san.outs, sanitizePackageName(SanitizeArg)) ]
    /\ UNCHANGED <<storeVars, up, ref, cat, scan>>

SanitizeVersion ==
    /\ san.fn = "ver"
    /\ Len(san.outs) < 2
    /\ san' = [ san EXCEPT !.outs = Append(san.outs, sanitizeVersion(SanitizeArg)) ]
    /\ UNCHANGED <<storeVars, up, ref, cat, scan>>

NextSanitize ==
    \/ SanitizePackageName
    \/ SanitizeVersion

SpecSanitize == InitSanitize /\ [][NextSanitize]_vars

\* C21: a sanitizer applied to what it returned returns the same again, for
\* sanitizePackageName and for sanitizeVersion.
SanitizeIdempotent ==
    Len(san.outs) = 2 => san.outs[2] = san.outs[1]

\* "a---b" has become "a-b", and "a-b" stays "a-b".
SanitizeIdempotentWitness ==
    /\ san.fn = "pkg"
    /\ san.input = <<"a", "-", "-", "-", "b">>
    /\ san.outs = << <<"a", "-", "b">>, <<"a", "-", "b">> >>

\* The characters of a tag, and the separators of a path segment.
TagChars == Lowers \cup Uppers \cup Digits \cup {"_", ".", "-"}
Separators == {"-", "_"}

\* C22: the tag sanitizeVersion returns for a version holds characters of
\* [A-Za-z0-9._-] only, is never empty and starts with neither '.' nor '-'; it
\* is "latest", or the version without its leading '.' and '-' characters, each
\* valid character kept as it is and each other one replaced by '_'.
\* "1.2/alpha" gives "1.2__", "-foo" gives "foo" and "" gives "latest".
VersionTag ==
    (san.fn = "ver" /\ Len(san.outs) >= 1) =>
        LET in == san.input
            out == san.outs[1]
        IN  /\ \A i \in 1..Len(out) : out[i] \in TagChars
            /\ out # << >>
            /\ out[1] \notin {".", "-"}
            /\ \/ out = Latest
               \/ \E k \in 0..Len(in) :
                      /\ \A j \in 1..k : in[j] \in {".", "-"}
                      /\ Len(out) = Len(in) - k
                      /\ \A i \in 1..Len(out) :
                             out[i] = IF in[k + i] \in TagChars THEN in[k + i] ELSE "_"
            /\ in = <<"1", ".", "2", "/", Alpha>> => out = <<"1", ".", "2", "_", "_">>
            /\ in = <<"-", "f", "o", "o">> => out = <<"f", "o", "o">>
            /\ in = << >> => out = Latest

\* C23: the path segment sanitizePackageName returns for a name holds
\* characters of [a-z0-9_-] only, neither starts nor ends with '-' or '_', and
\* has no two of '-' and '_' side by side; "a.b..c" gives "a-b-c".
PkgSegment ==
    (san.fn = "pkg" /\ Len(san.outs) >= 1) =>
        LET out == san.outs[1]
        IN  /\ \A i \in 1..Len(out) : out[i] \in Lowers \cup Digits \cup Separators
            /\ out # << >> => (out[1] \notin Separators /\ out[Len(out)] \notin Separators)
            /\ \A i \in 1..(Len(out) - 1) : ~(out[i] \in Separators /\ out[i + 1] \in Separators)
            /\ san.input = <<"a", ".", "b", ".", ".", "c">> => out = <<"a", "-", "b", "-", "c">>

PkgSegmentWitness ==
    /\ san.fn = "pkg"
    /\ san.input = <<"a", ".", "b", ".", ".", "c">>
    /\ Len(san.outs) >= 1
    /\ san.outs[1] = <<"a", "-", "b", "-", "c">>

\* ------------------------------------------------------- image references
\* A recipe path is the sequence of its directories and its file name, the
\* file name being the sequence of its parts between dots.
RecipePaths ==
    [ dirs : { <<"binaries", "bat">>, <<"packages", "bat">>, <<"packages", "binaries">>,
               <<"bat">> },
      base : { <<"static", "official", "stable", "yaml">>, <<"appimage", "yaml">>, <<"SBUILD">> } ]

\* determineRepo: strings.Contains(recipePath, "binaries/"), then "packages/".
determineRepo(recipePath) ==
    IF \E i \in 1..Len(recipePath.dirs) : recipePath.dirs[i] = "binaries" THEN "bincache"
    ELSE IF \E i \in 1..Len(recipePath.dirs) : recipePath.dirs[i] = "packages" THEN "pkgcache"
    ELSE "bincache"

RECURSIVE JoinWith(_, _)
\* strings.Join(parts, sep)
JoinWith(parts, sep) ==
    IF parts = << >> THEN << >>
    ELSE IF Len(parts) = 1 THEN <<parts[1]>>
    ELSE <<parts[1], sep>> \o JoinWith(Tail(parts), sep)

\* extractBuildType: the file name without filepath.Ext, its dots as slashes.
extractBuildType(recipePath) ==
    JoinWith(IF ContainsDot(recipePath.base) THEN BeforeLastDot(recipePath.base)
             ELSE recipePath.base, "/")

\* fmt.Sprintf("ghcr.io/pkgforge/%s/%s/%s/%s:%s-%s", ...): the reference as
\* the sequence of its pieces, a sanitized string giving its characters.
Reference(repo, family, buildType, name, version, arch) ==
    <<"ghcr.io/pkgforge/", repo, "/">> \o family \o <<"/">> \o buildType \o <<"/">> \o name
        \o <<":">> \o version \o <<"-">> \o arch

\* uploadSinglePackage: imageName.
imageName(r, targetName) ==
    Reference(determineRepo(r.recipePath), sanitizePackageName(r.PkgFamily),
              extractBuildType(r.recipePath), sanitizePackageName(targetName),
              sanitizeVersion(r.Version), MapChars(ToLower, r.Arch))

\* Mutant: the target as it is, as in download_url's download parameter.
ghcrPkgRawTarget(r, targetName) ==
    Reference(determineRepo(r.recipePath), sanitizePackageName(r.PkgFamily),
              extractBuildType(r.recipePath), targetName,
              sanitizeVersion(r.Version), MapChars(ToLower, r.Arch))

\* generateSingleMetadataJSON: ghcrPkg, the ghcr_pkg of <targetName>.json.
ghcrPkg(r, targetName) ==
    Reference(determineRepo(r.recipePath), sanitizePackageName(r.PkgFamily),
              extractBuildType(r.recipePath), sanitizePackageName(targetName),
              sanitizeVersion(r.Version), MapChars(ToLower, r.Arch))

\* UploadPackage's version for a PackageInfo without one: latest-YYYYMMDD.
DefaultVersion == <<"l", "a", "t", "e", "s", "t", "-", "2", "0", "2", "0", "1", "1", "0", "2">>

RefNames == { <<"b", "a", "t">>, <<"A", ".", "b">>, <<"_", "a", "/">> }
RefVersions == { << >>, <<"1", ".", "2">>, <<"-", "1", "/", "A">> }
RefArchs == { <<"A", "a">>, <<"a">> }

\* One target of one upload; started: the version has been defaulted.
RefInputs ==
    [ step : {"start"}, PkgFamily : RefNames, target : RefNames, Version : RefVersions,
      Arch : RefArchs, recipePath : RecipePaths, json : {NULL}, pushed : {NULL} ]

InitRef ==
    /\ builds = << >>
    /\ seq = 0
    /\ clock = 0
    /\ pc = [ p \in Procs |-> "idle" ]
    /\ cur = [ p \in Procs |-> 0 ]
    /\ now = [ p \in Procs |-> 0 ]
    /\ assigned = {}
    /\ everBuilding = {}
    /\ nStart = << >>
    /\ stale = {}
    /\ late = {}
    /\ sync_state = << >>
    /\ dispatch = "run"
    /\ crashed = {}
    /\ exec = [ p \in Procs |-> NoExec ]
    /\ up = NoUpload
    /\ san = NoSanitize
    /\ ref \in RefInputs
    /\ cat = NoCatalogue
    /\ scan = NoScan

\* UploadPackage: if pkgInfo.Version == "" it becomes latest-YYYYMMDD.
SetVersion ==
    /\ ref.step = "start"
    /\ ref' = [ ref EXCEPT !.step = "meta",
                           !.Version = IF ref.Version = << >> THEN DefaultVersion ELSE @ ]
    /\ UNCHANGED <<storeVars, up, san, cat, scan>>

\* generateMetadataJSON: <target>.json is written (generate), or the directory
\* holds a *.json already and nothing is.
WriteTargetJSON(generate) ==
    /\ ref.step = "meta"
    /\ ref' = [ ref EXCEPT !.step = "push",
                           !.json = IF generate THEN <<ghcrPkg(ref, ref.target)>> ELSE NULL ]
    /\ UNCHANGED <<storeVars, up, san, cat, scan>>

\* uploadSinglePackage: the push tool is run with imageName.
PushImage ==
    /\ ref.step = "push"
    /\ ref' = [ ref EXCEPT !.step = "done", !.pushed = <<imageName(ref, ref.target)>> ]
    /\ UNCHANGED <<storeVars, up, san, cat, scan>>

NextRef ==
    \/ SetVersion
    \/ \E generate \in BOOLEAN : WriteTargetJSON(generate)
    \/ PushImage

SpecRef == InitRef /\ [][NextRef]_vars

\* C24: the reference pushed for a target t is ghcr.io/pkgforge/<repo-class>/
\* <sanitize_pkg(pkg_family)>/<build type, its dots as slashes>/<sanitize_pkg(t)>
\* :<sanitize_ver(version)>-<lowercase(arch)>, and the ghcr_pkg written to the
\* <t>.json generated in the same run is the reference pushed for t.
ImageReference ==
    ~IsNull(ref.pushed) =>
        LET repoClass == IF \E i \in 1..Len(ref.recipePath.dirs) :
                                  ref.recipePath.dirs[i] = "binaries" THEN "bincache"
                         ELSE IF \E i \in 1..Len(ref.recipePath.dirs) :
                                  ref.recipePath.dirs[i] = "packages" THEN "pkgcache"
                         ELSE "bincache"
            stem == IF Len(ref.recipePath.base) > 1
                    THEN SubSeq(ref.recipePath.base, 1, Len(ref.recipePath.base) - 1)
                    ELSE ref.recipePath.base
            stated == <<"ghcr.io/pkgforge/", repoClass, "/">>
                          \o sanitizePackageName(ref.PkgFamily) \o <<"/">>
                          \o JoinWith(stem, "/") \o <<"/">>
                          \o sanitizePackageName(ref.target) \o <<":">>
                          \o sanitizeVersion(ref.Version) \o <<"-">>
                          \o [ i \in 1..Len(ref.Arch) |-> ToLower(ref.Arch[i]) ]
        IN  /\ Val(ref.pushed) = stated
            /\ ~IsNull(ref.json) => Val(ref.json) = Val(ref.pushed)

\* ghcr.io/pkgforge/pkgcache/bat/static/official/stable/a-b:latest-20201102-aa
\* is pushed and is the ghcr_pkg of the generated JSON.
ImageReferenceWitness ==
    /\ ref.step = "done"
    /\ ref.target = <<"A", ".", "b">>
    /\ ~IsNull(ref.json)
    /\ Val(ref.json) = Val(ref.pushed)
    /\ Val(ref.pushed) =
           <<"ghcr.io/pkgforge/", "pkgcache", "/", "b", "a", "t", "/", "static", "/", "official",
             "/", "stable", "/", "a", "-", "b", ":">> \o DefaultVersion \o <<"-", "a", "a">>

\* ====================================================== the catalogue builder
\* metadata.Generator.Generate and what it calls (internal/metadata).  A
\* package name or a ghcr_pkg is the sequence of its parts between slashes:
\* <<"bincache", "cal">> is "bincache/cal", <<"">> the empty string.
OrgPrefix == <<"ghcr.io", "pkgforge">>
BinCal == <<"bincache", "cal">>
BinCalOfficial == <<"bincache", "cal", "official">>
BinCalxOfficial == <<"bincache", "calx", "official">>
PkgBatAppimage == <<"pkgcache", "bat", "appimage">>
InventoryNames == {BinCal, BinCalOfficial, BinCalxOfficial, PkgBatAppimage}
Visibilities == {"public", "private"}

\* SBUILD_LIST.json: the entries it may hold.
SBuildPool ==
    { [ Disabled |-> FALSE, GHCRPkg |-> OrgPrefix \o BinCal ],
      [ Disabled |-> TRUE, GHCRPkg |-> OrgPrefix \o BinCal ],
      [ Disabled |-> TRUE, GHCRPkg |-> OrgPrefix \o <<"bincache", "calx">> ],
      [ Disabled |-> FALSE, GHCRPkg |-> <<"pkgcache", "bat">> ],
      [ Disabled |-> FALSE, GHCRPkg |-> OrgPrefix \o EmptyName ] }

\* GeneratorConfig.Type
RepoClasses == {"bincache", "pkgcache", "soarpkgs"}

RECURSIVE ListOf(_)
\* The members of a set as a list, in some fixed order.
ListOf(S) == IF S = {} THEN << >> ELSE LET x == CHOOSE y \in S : TRUE IN <<x>> \o ListOf(S \ {x})

\* strings.TrimPrefix(str, "ghcr.io/pkgforge/")
TrimOrgPrefix(str) ==
    IF Len(str) > Len(OrgPrefix) /\ SubSeq(str, 1, Len(OrgPrefix)) = OrgPrefix
    THEN SubSeq(str, Len(OrgPrefix) + 1, Len(str))
    ELSE str

\* strings.HasPrefix(str, prefix + "/")
HasPathPrefix(str, prefix) ==
    Len(str) > Len(prefix) /\ SubSeq(str, 1, Len(prefix)) = prefix

RECURSIVE Families(_)
\* FetchPackagesFromSBuildList: the relative ghcr_pkg of the entries that are
\* not disabled, an empty one left out.
Families(entries) ==
    IF entries = << >> THEN << >>
    ELSE LET pkgName == TrimOrgPrefix(Head(entries).GHCRPkg)
         IN  (IF ~Head(entries).Disabled /\ pkgName # EmptyName THEN <<pkgName>> ELSE << >>)
                 \o Families(Tail(entries))

\* Mutant: a package is matched by the family its name starts with, whatever
\* the family's entry says.
MatchesFamilyOfAnyEntry(pkg, sbuildFamilies) ==
    \E e \in SBuildPool : HasPathPrefix(pkg, TrimOrgPrefix(e.GHCRPkg))

\* Generate: pkg starts with family + "/", or is family, for some family.
MatchesFamily(pkg, sbuildFamilies) ==
    \E i \in 1..Len(sbuildFamilies) :
        HasPathPrefix(pkg, sbuildFamilies[i]) \/ pkg = sbuildFamilies[i]

RECURSIVE Matching(_, _, _)
\* Generate's loop over allPackages.
Matching(allPackages, type, sbuildFamilies) ==
    IF allPackages = << >> THEN << >>
    ELSE (IF HasPathPrefix(Head(allPackages), <<type>>)
             /\ MatchesFamily(Head(allPackages), sbuildFamilies)
          THEN <<Head(allPackages)>> ELSE << >>)
             \o Matching(Tail(allPackages), type, sbuildFamilies)

\* The organization's container packages as the GitHub API lists them (name ->
\* visibility), the SBUILD list and the type of one run of Generate.
CandidateInputs ==
    { [ step |-> "publish", api |-> api, sbuild |-> ListOf(entries), type |-> type,
        published |-> << >>, allPackages |-> << >>, sbuildFamilies |-> << >>,
        packages |-> << >>, ret |-> "" ] :
          api \in UNION { [ names -> Visibilities ] : names \in SUBSET InventoryNames },
          entries \in SUBSET SBuildPool, type \in RepoClasses }

InitCandidates ==
    /\ builds = << >>
    /\ seq = 0
    /\ clock = 0
    /\ pc = [ p \in Procs |-> "idle" ]
    /\ cur = [ p \in Procs |-> 0 ]
    /\ now = [ p \in Procs |-> 0 ]
    /\ assigned = {}
    /\ everBuilding = {}
    /\ nStart = << >>
    /\ stale = {}
    /\ late = {}
    /\ sync_state = << >>
    /\ dispatch = "run"
    /\ crashed = {}
    /\ exec = [ p \in Procs |-> NoExec ]
    /\ up = NoUpload
    /\ san = NoSanitize
    /\ ref = NoRef
    /\ cat \in CandidateInputs
    /\ scan = NoScan

\* GenerateGHCRPackageList: the id and name of every package the API returns
\* go to GHCR_PKGS.json, which is published.
GenerateGHCRPackageList ==
    /\ cat.step = "publish"
    /\ cat' = [ cat EXCEPT !.step = "inventory", !.published = ListOf(DOMAIN cat.api) ]
    /\ UNCHANGED <<storeVars, up, san, ref, scan>>

\* Generate's call of FetchGHCRPackageList: the names of the published list.
FetchGHCRPackageList(ok) ==
    /\ cat.step = "inventory"
    /\ cat' = IF ok THEN [ cat EXCEPT !.step = "sbuild", !.allPackages = cat.published ]
              ELSE [ cat EXCEPT !.step = "done", !.ret = "failed to fetch GHCR packages" ]
    /\ UNCHANGED <<storeVars, up, san, ref, scan>>

\* Generate's choice of the URLs by type, and its call of
\* FetchPackagesFromSBuildList.
FetchPackagesFromSBuildList(ok) ==
    /\ cat.step = "sbuild"
    /\ cat' = IF cat.type \notin {"bincache", "pkgcache"}
              THEN [ cat EXCEPT !.step = "done", !.ret = "invalid type" ]
              ELSE IF ~ok THEN [ cat EXCEPT !.step = "done", !.ret = "failed to fetch SBUILD_LIST" ]
              ELSE [ cat EXCEPT !.step = "filter", !.sbuildFamilies = Families(cat.sbuild) ]
    /\ UNCHANGED <<storeVars, up, san, ref, scan>>

\* Generate's loop over allPackages, and its return when nothing matches.
SelectPackages ==
    /\ cat.step = "filter"
    /\ LET packages == Matching(cat.allPackages, cat.type, cat.sbuildFamilies)
       IN  cat' = IF packages = << >>
                  THEN [ cat EXCEPT !.step = "done", !.ret = "no packages found" ]
                  ELSE [ cat EXCEPT !.step = "query", !.packages = packages ]
    /\ UNCHANGED <<storeVars, up, san, ref, scan>>

NextCandidates ==
    \/ GenerateGHCRPackageList
    \/ \E ok \in BOOLEAN : FetchGHCRPackageList(ok)
    \/ \E ok \in BOOLEAN : FetchPackagesFromSBuildList(ok)
    \/ SelectPackages

SpecCandidates == InitCandidates /\ [][NextCandidates]_vars

\* The names of a list.
Members(list) == { list[i] : i \in 1..Len(list) }

\* C27: once Generate has selected its packages, they are exactly the names of
\* the inventory that start with <type>/ and that are, or extend by a suffix
\* after a '/', the ghcr_pkg without ghcr.io/pkgforge/ of an SBUILD entry that
\* is not disabled; a name that only disabled entries match is not selected.
CandidateList ==
    (cat.step = "query" \/ (cat.step = "done" /\ cat.ret = "no packages found")) =>
        LET enabled == { e \in Members(cat.sbuild) : ~e.Disabled }
            relative(e) == IF Len(e.GHCRPkg) > 2 /\ e.GHCRPkg[1] = "ghcr.io"
                                /\ e.GHCRPkg[2] = "pkgforge"
                           THEN SubSeq(e.GHCRPkg, 3, Len(e.GHCRPkg)) ELSE e.GHCRPkg
            extends(name, rel) ==
                \/ name = rel
                \/ Len(name) > Len(rel) /\ \A i \in 1..Len(rel) : name[i] = rel[i]
            stated == { name \in Members(cat.allPackages) :
                            /\ Len(name) > 1 /\ name[1] = cat.type
                            /\ \E e \in enabled : extends(name, relative(e)) }
        IN  Members(cat.packages) = stated

\* bincache/cal and bincache/cal/official are selected for the enabled entry
\* ghcr.io/pkgforge/bincache/cal; bincache/calx/official, which only a disabled
\* entry matches, and pkgcache/bat/appimage are not.
CandidateListWitness ==
    /\ cat.step = "query"
    /\ cat.type = "bincache"
    /\ Members(cat.allPackages) = InventoryNames
    /\ [ Disabled |-> TRUE, GHCRPkg |-> OrgPrefix \o <<"bincache", "calx">> ] \in Members(cat.sbuild)
    /\ Members(cat.packages) = {BinCal, BinCalOfficial}

\* C28: every package Generate selects for querying is an entry of the
\* inventory whose visibility is public.
OnlyPublicCandidates ==
    \A i \in 1..Len(cat.packages) :
        cat.packages[i] \in DOMAIN cat.api /\ cat.api[cat.packages[i]] = "public"

\* ------------------------------------------------- <arch>.json and <arch>.db
\* GenerateMetadataForPackages and ConvertJSONToSQLite.  What the registry
\* answers for one package: whether `oras repo tags` succeeds, the tags it
\* lists (a tag is the sequence of its parts), and
\* what `oras manifest fetch` gives for each tag.
Arch == "x86_64-Linux"
TagV1 == <<"v1", "x86_64-linux">>
TagV2 == <<"v2", "x86_64-linux">>
TagSrc == <<"srcbuild", "x86_64-linux">>
TagArm == <<"v1", "aarch64-linux">>
CalMeta == [ Pkg |-> "cal", PkgID |-> "official.cal" ]
CalNixMeta == [ Pkg |-> "cal", PkgID |-> "nixpkgs.cal" ]
BatMeta == [ Pkg |-> "bat", PkgID |-> "official.bat" ]
StaleMeta == [ Pkg |-> "old", PkgID |-> "official.old" ]
Nil == [ Pkg |-> "nil" ]
FetchFailed == [ kind |-> "fetch failed" ]
NotJSON == [ kind |-> "not json" ]
NoAnnotation == [ kind |-> "manifest", annotation |-> "absent" ]
BadAnnotation == [ kind |-> "manifest", annotation |-> "unparseable" ]
Annotated(meta) == [ kind |-> "manifest", annotation |-> "parseable", meta |-> meta ]

Answers ==
    { [ tagsOk |-> FALSE, tags |-> << >>, manifests |-> << >> ],
      [ tagsOk |-> TRUE, tags |-> <<TagSrc, TagArm>>,
        manifests |-> <<Annotated(CalMeta), Annotated(CalMeta)>> ],
      [ tagsOk |-> TRUE, tags |-> <<TagV1, TagV2>>,
        manifests |-> <<Annotated(CalMeta), FetchFailed>> ],
      [ tagsOk |-> TRUE, tags |-> <<TagV1>>, manifests |-> <<NotJSON>> ],
      [ tagsOk |-> TRUE, tags |-> <<TagV1>>, manifests |-> <<NoAnnotation>> ],
      [ tagsOk |-> TRUE, tags |-> <<TagV1>>, manifests |-> <<BadAnnotation>> ],
      [ tagsOk |-> TRUE, tags |-> <<TagV1>>, manifests |-> <<Annotated(CalMeta)>> ],
      [ tagsOk |-> TRUE, tags |-> <<TagV1, TagSrc>>,
        manifests |-> <<Annotated(CalNixMeta), FetchFailed>> ],
      [ tagsOk |-> TRUE, tags |-> <<TagV1, TagV2>>,
        manifests |-> <<FetchFailed, Annotated(BatMeta)>> ] }

\* strings.ToLower of a part.
LowerPart(part) == IF part = "x86_64-Linux" THEN "x86_64-linux" ELSE part

\* strings.Contains(tag, part)
TagContains(tag, part) == \E i \in 1..Len(tag) : tag[i] = part

\* QueryPackageMetadata's scan: the index of the last tag without srcbuild
\* that contains the lowercased architecture, 0 when there is none.
LatestTag(tags) ==
    LET matching == { i \in 1..Len(tags) :
                        /\ ~TagContains(tags[i], "srcbuild")
                        /\ TagContains([ j \in 1..Len(tags[i]) |-> LowerPart(tags[i][j]) ],
                                       LowerPart(Arch)) }
    IN  IF matching = {} THEN 0 ELSE CHOOSE i \in matching : \A j \in matching : j <= i

\* QueryPackageMetadata: the metadata of the annotation, Nil for (nil, nil).
QueryPackageMetadata(answer) ==
    IF ~answer.tagsOk THEN Nil
    ELSE IF LatestTag(answer.tags) = 0 THEN Nil
    ELSE LET manifest == answer.manifests[LatestTag(answer.tags)]
         IN  IF manifest.kind # "manifest" THEN Nil
             ELSE IF manifest.annotation # "parseable" THEN Nil
             ELSE manifest.meta

\* Mutant: a package without metadata empties what was written.
WriteRecordOrReset(json, meta) == IF meta = Nil THEN << >> ELSE Append(json, meta)

\* GenerateMetadataForPackages' loop body after the query: nothing is
\* written for a nil meta, the record is appended otherwise.
WriteRecord(json, meta) == IF meta = Nil THEN json ELSE Append(json, meta)

\* INSERT OR REPLACE INTO packages, pkg being the PRIMARY KEY.
InsertOrReplace(db, row) == { r \in db : r.Pkg # row.Pkg } \cup {row}

RECURSIVE InsertAll(_, _)
\* ConvertJSONToSQLite's loop over the records of <arch>.json.
InsertAll(db, records) ==
    IF records = << >> THEN db
    ELSE InsertAll(InsertOrReplace(db, Head(records)), Tail(records))

\* The packages Generate hands over (never none), and the <arch>.db the output
\* directory holds before the run: none, or the one of an earlier run.
CatalogueInputs ==
    { [ step |-> "login", packages |-> packages, answers |-> << >>, json |-> << >>,
        db |-> db, written |-> FALSE, converted |-> FALSE, ret |-> "" ] :
          packages \in { <<BinCalOfficial>>, <<BinCal, BinCalOfficial>>,
                         <<BinCal, BinCalOfficial, BinCalxOfficial>> },
          db \in { {}, {StaleMeta} } }

InitCatalogue ==
    /\ builds = << >>
    /\ seq = 0
    /\ clock = 0
    /\ pc = [ p \in Procs |-> "idle" ]
    /\ cur = [ p \in Procs |-> 0 ]
    /\ now = [ p \in Procs |-> 0 ]
    /\ assigned = {}
    /\ everBuilding = {}
    /\ nStart = << >>
    /\ stale = {}
    /\ late = {}
    /\ sync_state = << >>
    /\ dispatch = "run"
    /\ crashed = {}
    /\ exec = [ p \in Procs |-> NoExec ]
    /\ up = NoUpload
    /\ san = NoSanitize
    /\ ref = NoRef
    /\ cat \in CatalogueInputs
    /\ scan = NoScan

\* GenerateMetadataForPackages up to its loop: ensureGHCRLogin, os.Create and
\* the opening bracket.
EnsureGHCRLogin(ok) ==
    /\ cat.step = "login"
    /\ cat' = IF ok THEN [ cat EXCEPT !.step = "query" ]
              ELSE [ cat EXCEPT !.step = "done", !.ret = "failed to generate metadata" ]
    /\ UNCHANGED <<storeVars, up, san, ref, scan>>

\* One pass of GenerateMetadataForPackages' loop: the next package is queried
\* with the registry answering `answer`.
QueryPackage(answer) ==
    /\ cat.step = "query"
    /\ Len(cat.answers) < Len(cat.packages)
    /\ cat' = [ cat EXCEPT !.answers = Append(@, answer),
                           !.json = WriteRecord(@, QueryPackageMetadata(answer)) ]
    /\ UNCHANGED <<storeVars, up, san, ref, scan>>

\* The end of GenerateMetadataForPackages: the closing bracket; it returns nil.
CloseJSON ==
    /\ cat.step = "query"
    /\ Len(cat.answers) = Len(cat.packages)
    /\ cat' = [ cat EXCEPT !.step = "convert", !.written = TRUE ]
    /\ UNCHANGED <<storeVars, up, san, ref, scan>>

\* GenerateAllFormats' call of ConvertJSONToSQLite.
ConvertJSONToSQLite ==
    /\ cat.step = "convert"
    /\ cat' = [ cat EXCEPT !.step = "compress", !.db = InsertAll(@, cat.json),
                           !.converted = TRUE ]
    /\ UNCHANGED <<storeVars, up, san, ref, scan>>

\* The rest of GenerateAllFormats: a failing xz or zstd of <arch>.json ends
\* Generate with an error.
GenerateCompressedFormats(ok) ==
    /\ cat.step = "compress"
    /\ cat' = [ cat EXCEPT !.step = "done",
                           !.ret = IF ok THEN "" ELSE "failed to generate formats" ]
    /\ UNCHANGED <<storeVars, up, san, ref, scan>>

NextCatalogue ==
    \/ \E ok \in BOOLEAN : EnsureGHCRLogin(ok)
    \/ \E answer \in Answers : QueryPackage(answer)
    \/ CloseJSON
    \/ ConvertJSONToSQLite
    \/ \E ok \in BOOLEAN : GenerateCompressedFormats(ok)

SpecCatalogue == InitCatalogue /\ [][NextCatalogue]_vars

\* The packages queried so far whose selected manifest carries a parseable
\* annotation, in the order of the list.
AnnotatedAnswers(answers) == SelectSeq(answers, LAMBDA a : QueryPackageMetadata(a) # Nil)

RowCount == cat.converted => Cardinality(cat.db) = Len(cat.json)

\* ------------------------------------------------- fetching SBUILD_LIST.json
\* FetchPackagesFromSBuildList up to the parsing.  What a GET gives: the body
\* with status 200, a transport error, another status, or a body that cannot
\* be read.
Responses == {"200", "error", "status", "unreadable"}
PrimaryBody == "release asset"
FallbackBody == "legacy file"

\* Mutant: the body of the primary URL whatever its GET gave.
fetchPrimaryOnly(primary, fallback) == [ body |-> PrimaryBody, err |-> "" ]

\* fetchWithFallback: the body and the error it returns.
fetchWithFallback(primary, fallback) ==
    IF primary = "200" THEN [ body |-> PrimaryBody, err |-> "" ]
    ELSE IF fallback = "error" THEN [ body |-> "", err |-> "failed to fetch from both URLs" ]
    ELSE IF fallback = "status" THEN [ body |-> "", err |-> "failed to fetch SBUILD_LIST: status" ]
    ELSE IF fallback = "unreadable" THEN [ body |-> "", err |-> "failed to read SBUILD_LIST" ]
    ELSE [ body |-> FallbackBody, err |-> "" ]

\* verifyMinisign: nil without minisign, without the public key or without the
\* signature file, and what `minisign -V` says otherwise.
verifyMinisign(minisign, pubKey, sigFile, verdict) ==
    IF ~minisign THEN ""
    ELSE IF ~pubKey THEN ""
    ELSE IF ~sigFile THEN ""
    ELSE IF ~verdict THEN "signature verification failed"
    ELSE ""

\* What the two URLs and <primary>.sig answer, whether minisign is installed
\* and keys/minisign.pub exists, what minisign says of the signature and the
\* file it is given, and whether the body is JSON.
SBuildInputs ==
    { [ step |-> "fetch", primary |-> primary, fallback |-> fallback, sig |-> sig,
        minisign |-> minisign, pubKey |-> pubKey, verdict |-> verdict, json |-> json,
        body |-> "", verified |-> "", ret |-> "" ] :
          primary \in Responses, fallback \in Responses, sig \in Responses,
          minisign \in BOOLEAN, pubKey \in BOOLEAN, verdict \in BOOLEAN, json \in BOOLEAN }

InitSBuild ==
    /\ builds = << >>
    /\ seq = 0
    /\ clock = 0
    /\ pc = [ p \in Procs |-> "idle" ]
    /\ cur = [ p \in Procs |-> 0 ]
    /\ now = [ p \in Procs |-> 0 ]
    /\ assigned = {}
    /\ everBuilding = {}
    /\ nStart = << >>
    /\ stale = {}
    /\ late = {}
    /\ sync_state = << >>
    /\ dispatch = "run"
    /\ crashed = {}
    /\ exec = [ p \in Procs |-> NoExec ]
    /\ up = NoUpload
    /\ san = NoSanitize
    /\ ref = NoRef
    /\ cat \in SBuildInputs
    /\ scan = NoScan

\* FetchPackagesFromSBuildList: the call of fetchWithFallback and the writing
\* of the body to the temporary file.
FetchBody ==
    /\ cat.step = "fetch"
    /\ LET got == fetchWithFallback(cat.primary, cat.fallback)
       IN  cat' = IF got.err # ""
                  THEN [ cat EXCEPT !.step = "done", !.ret = got.err ]
                  ELSE [ cat EXCEPT !.step = "signature", !.body = got.body ]
    /\ UNCHANGED <<storeVars, up, san, ref, scan>>

\* FetchPackagesFromSBuildList: the GET of <primary>.sig and, when it gives a
\* signature, the call of verifyMinisign on the temporary file.
VerifySignature ==
    /\ cat.step = "signature"
    /\ cat' = IF cat.sig # "200" THEN [ cat EXCEPT !.step = "parse" ]
              ELSE LET err == verifyMinisign(cat.minisign, cat.pubKey, TRUE, cat.verdict)
                       ran == cat.minisign /\ cat.pubKey
                   IN  IF err # ""
                       THEN [ cat EXCEPT !.step = "done", !.ret = err, !.verified = cat.body ]
                       ELSE [ cat EXCEPT !.step = "parse",
                                         !.verified = IF ran THEN cat.body ELSE "" ]
    /\ UNCHANGED <<storeVars, up, san, ref, scan>>

\* FetchPackagesFromSBuildList: json.Unmarshal of the body.
ParseSBuildList ==
    /\ cat.step = "parse"
    /\ cat' = [ cat EXCEPT !.step = "done",
                           !.ret = IF cat.json THEN "" ELSE "failed to parse SBUILD_LIST" ]
    /\ UNCHANGED <<storeVars, up, san, ref, scan>>

NextSBuild ==
    \/ FetchBody
    \/ VerifySignature
    \/ ParseSBuildList

SpecSBuild == InitSBuild /\ [][NextSBuild]_vars

FetchOutcomes == {"ok", "network error", "unreadable body", "5xx", "4xx", "not json"}
maxRetries == 3

\* Network errors, unreadable bodies and server errors may pass.
Transient(outcome) == outcome \in {"network error", "unreadable body", "5xx"}

\* What the attempts would give, one after the other, for one fetch.
RetryInputs ==
    { [ step |-> fetch, outcomes |-> outcomes, attempt |-> 0, result |-> "pending" ] :
          fetch \in {"page", "manifest"}, outcomes \in [ 1..maxRetries -> FetchOutcomes ] }

InitRetry ==
    /\ builds = << >>
    /\ seq = 0
    /\ clock = 0
    /\ pc = [ p \in Procs |-> "idle" ]
    /\ cur = [ p \in Procs |-> 0 ]
    /\ now = [ p \in Procs |-> 0 ]
    /\ assigned = {}
    /\ everBuilding = {}
    /\ nStart = << >>
    /\ stale = {}
    /\ late = {}
    /\ sync_state = << >>
    /\ dispatch = "run"
    /\ crashed = {}
    /\ exec = [ p \in Procs |-> NoExec ]
    /\ up = NoUpload
    /\ san = NoSanitize
    /\ ref = NoRef
    /\ cat \in RetryInputs
    /\ scan = NoScan

\* One pass of FetchGHCRPackages' retry loop for a page: a network error or
\* an unreadable body is tried again before the last attempt, and so is a 5xx
\* status; any other failure, and the last attempt's, returns the error.
AttemptPage ==
    /\ cat.step = "page"
    /\ cat.result = "pending"
    /\ cat.attempt + 1 <= maxRetries
    /\ LET attempt == cat.attempt + 1
           outcome == cat.outcomes[attempt]
       IN  cat' = [ cat EXCEPT !.attempt = attempt,
                        !.result = IF outcome = "ok" THEN "fetched"
                                   ELSE IF Transient(outcome) /\ attempt < maxRetries
                                   THEN "pending"
                                   ELSE "given up" ]
    /\ UNCHANGED <<storeVars, up, san, ref, scan>>

\* QueryPackageMetadata's `oras manifest fetch` and the parsing of its output:
\* any failure returns (nil, nil), and the package is skipped.
FetchManifest ==
    /\ cat.step = "manifest"
    /\ cat.result = "pending"
    /\ LET attempt == cat.attempt + 1
           outcome == cat.outcomes[attempt]
       IN  cat' = [ cat EXCEPT !.attempt = attempt,
                        !.result = IF outcome = "ok" THEN "fetched" ELSE "given up" ]
    /\ UNCHANGED <<storeVars, up, san, ref, scan>>

NextRetry ==
    \/ AttemptPage
    \/ FetchManifest

SpecRetry == InitRetry /\ [][NextRetry]_vars

\* C30: a fetch is attempted at most three times; it is given up after a
\* transient failure only when that was the third attempt; and it ends with
\* the first attempt that succeeds.
RetryBudget ==
    /\ cat.attempt <= maxRetries
    /\ (cat.result = "given up" /\ Transient(cat.outcomes[cat.attempt])) =>
           cat.attempt = maxRetries
    /\ cat.result = "fetched" =>
           /\ cat.outcomes[cat.attempt] = "ok"
           /\ \A i \in 1..(cat.attempt - 1) : cat.outcomes[i] # "ok"

\* ================================================================ sync_state
\* syncCmd run again and again, for two repositories and two commits, while
\* the clock runs; GetLastSyncState beside it.
SyncRepos == {SyncRepo, "bincache"}
SyncCommits == {SyncCommit, "HEAD~1"}

NextSync ==
    \/ \E r \in SyncRepos, c \in SyncCommits, n \in RecipeCounts, t \in clock..MaxClock :
        Len(sync_state) < MaxSaves /\ SaveSyncState(r, c, n, t)
    \/ \E r \in SyncRepos : LastSyncStateCmd(r)

SpecSync == Init /\ [][NextSync]_vars

\* C31: GetLastSyncState(repo) returns the commit of the row saved last for
\* the repository, also when an earlier row has the same last_sync_time, and
\* the empty commit when no row was saved for it.
NewestSyncWins ==
    \A r \in SyncRepos :
        LET saved == { i \in 1..Len(sync_state) : sync_state[i].repo_name = r }
        IN  \A got \in GetLastSyncState(sync_state, r) :
                got[1] = IF saved = {} THEN "" ELSE sync_state[Max(saved)].last_commit_hash

\* =============================================================== force_build
\* A worker draining rows enqueued by queueCmd and forceCmd, and forceCmd
\* enqueueing one more beside it, within one tick of the clock.  forceCmd is
\* the only caller of Add with forceBuild, and it passes priority 100.
ForcePool ==
    { row \in [ pkg_name : Pkgs, arch : Archs, priority : Priorities, force_build : BOOLEAN,
                status : {StatusQueued}, created_at : {0, TicksPerSec},
                started_at : {NULL}, completed_at : {NULL},
                duration_seconds : {NULL}, error_message : {NULL} ] :
          row.force_build => row.priority = ForcePriority }

InitForce ==
    /\ builds \in [ 1..MaxBuilds -> ForcePool ]
    /\ seq = MaxBuilds
    /\ clock = TicksPerSec
    /\ pc = [ p \in Procs |-> "idle" ]
    /\ cur = [ p \in Procs |-> 0 ]
    /\ now = [ p \in Procs |-> 0 ]
    /\ assigned = 1..MaxBuilds
    /\ everBuilding = {}
    /\ nStart = [ i \in 1..MaxBuilds |-> 0 ]
    /\ stale = {}
    /\ late = {}
    /\ sync_state = << >>
    /\ dispatch = "run"
    /\ crashed = {}
    /\ exec = [ p \in Procs |-> NoExec ]
    /\ up = NoUpload
    /\ san = NoSanitize
    /\ ref = NoRef
    /\ cat = NoCatalogue
    /\ scan = NoScan

\* forceCmd: Add(recipe.Name, recipe.PkgID, recipe.BuildScript, arch, 100, true)
ForceCmd(pkgName, a, t) == Add(pkgName, a, ForcePriority, TRUE, t)

NextForce ==
    \/ \E n \in Pkgs, a \in Archs : seq < MaxBuilds + 1 /\ ForceCmd(n, a, clock)
    \/ WorkerGetNext("w1")
    \/ WorkerIdle("w1")
    \/ StampBuilding("w1", clock)
    \/ WriteBuilding("w1")
    \/ Finish("w1", clock)
    \/ \E o \in Outcomes : WriteTerminal("w1", o)

SpecForce == InitForce /\ [][NextForce]_vars

\* The table with the force_build flags set as `flags` says.
WithFlags(b, flags) == [ i \in DOMAIN b |-> [ b[i] EXCEPT !.force_build = flags[i] ] ]

\* C32: at every point of a drain, GetNext returns for every arch the same
\* rows as it would from any table that differs in the force_build flags only
\* (so the whole sequences of results are the same: no later write looks at
\* the flag); a forced row is returned before an older row that is not forced
\* only when its priority is higher; and a forced row has priority 100.
ForceIsAdvisory ==
    /\ \A a \in Archs, flags \in [ DOMAIN builds -> BOOLEAN ] :
        GetNext(WithFlags(builds, flags), a) = GetNext(builds, a)
    /\ \A a \in Archs : \A i \in GetNext(builds, a) :
        \A j \in DOMAIN builds :
            ( /\ builds[j].status = StatusQueued /\ builds[j].arch = a
              /\ builds[i].force_build /\ ~builds[j].force_build
              /\ builds[j].created_at < builds[i].created_at )
                => builds[i].priority > builds[j].priority
    /\ \A i \in DOMAIN builds : builds[i].force_build => builds[i].priority = ForcePriority

\* A forced row and an older row of the same priority that is not forced wait
\* for the same arch, and the worker has got the older one.
ForceIsAdvisoryWitness ==
    /\ pc["w1"] = "claimed"
    /\ \E j \in DOMAIN builds :
        /\ j # cur["w1"]
        /\ builds[j].status = StatusQueued /\ builds[j].arch = DispatchArch
        /\ builds[j].force_build /\ ~builds[cur["w1"]].force_build
        /\ builds[j].priority = builds[cur["w1"]].priority
        /\ builds[cur["w1"]].created_at < builds[j].created_at
        /\ j \notin 1..MaxBuilds

\* ======================================================== scratch directories
\* The two workers of a dispatch command running builds side by side, within
\* one tick of the clock.
\* buildCmd's executor.Config: WorkDir and LogDir.
WorkDir == "/tmp/buildctl-work"
LogDir == "./logs"

\* runSbuild: cmd.Dir = e.workDir
cmdDir(id) == WorkDir

\* ExecuteBuild: filepath.Join(e.logDir, fmt.Sprintf("build-%d-%s.log", build.ID,
\* build.PkgName)), as the parts of the path.
logFile(id, pkgName) == <<LogDir, "build", id, pkgName, "log">>

NextPool ==
    \/ \E n \in Pkgs : seq < MaxBuilds /\ Add(n, DispatchArch, DefaultPriority, FALSE, clock)
    \/ \E w \in Workers : WorkerGetNext(w)
    \/ \E w \in Workers : WorkerIdle(w)
    \/ \E w \in Workers : StampBuilding(w, clock)
    \/ \E w \in Workers : WriteBuilding(w)
    \/ \E w \in Workers, ok \in BOOLEAN : CreateLog(w, ok)
    \/ \E w \in Workers, ok \in BOOLEAN : LookPath(w, ok)
    \/ \E w \in Workers, ok \in BOOLEAN : StatRecipe(w, ok)
    \/ \E w \in Workers, ok \in BOOLEAN : StartDriver(w, ok)
    \/ \E w \in Workers, code \in {0, 1} : DriverExit(w, code)
    \/ \E w \in Workers : Wait(w)
    \/ \E w \in Workers, readable \in BOOLEAN : ReadLog(w, readable)
    \/ \E w \in Workers : FinishRun(w, clock)
    \/ \E w \in Workers : WriteOutcome(w)

SpecPool == Init /\ [][NextPool]_vars

\* The workers whose driver is running.
Driving == { w \in Workers : InRun(w, "driver") }

\* C33: two drivers running at the same time for different build ids have
\* different working directories and different log files.
ScratchPartitioned ==
    \A v \in Driving, w \in Driving :
        cur[v] # cur[w] =>
            /\ cmdDir(cur[v]) # cmdDir(cur[w])
            /\ logFile(cur[v], builds[cur[v]].pkg_name) # logFile(cur[w], builds[cur[w]].pkg_name)

\* =============================================================== the scanner
\* Scanner.ScanByPackage (internal/scanner).  A string is the sequence of its
\* pieces, a recipe path the sequence of its components: <<"b", "top">> is
\* "btop", << <<"binaries">>, <<"top">>, <<"static.yaml">> >> is
\* binaries/top/static.yaml.  A package name holds no slash.
Top == <<"top">>
Btop == <<"b", "top">>
ScanNames == {Top, <<"bat">>}

\* The recipes ScanAll may find.
RecipePool ==
    { [ PkgID |-> Btop, Name |-> Btop,
        BuildScript |-> << <<"binaries">>, Btop, <<"static.yaml">> >> ],
      [ PkgID |-> Top, Name |-> <<"procps">>,
        BuildScript |-> << <<"binaries">>, <<"procps">>, <<"static.yaml">> >> ],
      [ PkgID |-> <<"procps">>, Name |-> Top,
        BuildScript |-> << <<"binaries">>, <<"procps">>, <<"musl.yaml">> >> ],
      [ PkgID |-> <<"busybox">>, Name |-> <<"busybox">>,
        BuildScript |-> << <<"packages">>, Top, <<"busybox.yaml">> >> ],
      [ PkgID |-> <<"cal">>, Name |-> <<"cal">>,
        BuildScript |-> << <<"binaries">>, <<"top.yaml">> >> ] }

NoRecipe == [ PkgID |-> << >>, Name |-> << >>, BuildScript |-> << >> ]

\* strings.Contains(str, sub)
Contains(str, sub) ==
    \E i \in 0..Len(str) : i + Len(sub) <= Len(str) /\ SubSeq(str, i + 1, i + Len(sub)) = sub

\* strings.Contains(path, "/" + name + "/"): a component between two slashes
\* is the name.
ContainsDir(path, name) == \E i \in 1..Len(path) : 1 < i /\ i < Len(path) /\ path[i] = name

\* ScanByPackage's condition on one recipe.
Matches(recipe, pkgName) ==
    \/ recipe.PkgID = pkgName
    \/ recipe.Name = pkgName
    \/ Contains(recipe.PkgID, pkgName)
    \/ ContainsDir(recipe.BuildScript, pkgName)

RECURSIVE FirstMatch(_, _)
\* ScanByPackage's loop: the first recipe of the list that matches, NoRecipe
\* when the loop ends.
FirstMatch(recipes, pkgName) ==
    IF recipes = << >> THEN NoRecipe
    ELSE IF Matches(Head(recipes), pkgName) THEN Head(recipes)
    ELSE FirstMatch(Tail(recipes), pkgName)

\* The recipes of a repository in every order ScanAll may find them, and the
\* name asked for.
ScanInputs ==
    { [ step |-> "call", recipes |-> recipes, pkgName |-> pkgName,
        result |-> NoRecipe, err |-> "" ] :
          recipes \in UNION { { f \in [ 1..Cardinality(S) -> S ] :
                                  \A i, j \in DOMAIN f : f[i] = f[j] => i = j } :
                              S \in SUBSET RecipePool },
          pkgName \in ScanNames }

InitScan ==
    /\ builds = << >>
    /\ seq = 0
    /\ clock = 0
    /\ pc = [ p \in Procs |-> "idle" ]
    /\ cur = [ p \in Procs |-> 0 ]
    /\ now = [ p \in Procs |-> 0 ]
    /\ assigned = {}
    /\ everBuilding = {}
    /\ nStart = << >>
    /\ stale = {}
    /\ late = {}
    /\ sync_state = << >>
    /\ dispatch = "run"
    /\ crashed = {}
    /\ exec = [ p \in Procs |-> NoExec ]
    /\ up = NoUpload
    /\ san = NoSanitize
    /\ ref = NoRef
    /\ cat = NoCatalogue
    /\ scan \in ScanInputs

\* ScanByPackage: ScanAll, whose error is returned, then the loop.
ScanByPackage(ok) ==
    /\ scan.step = "call"
    /\ scan' = IF ~ok THEN [ scan EXCEPT !.step = "done", !.err = "failed to scan" ]
               ELSE LET recipe == FirstMatch(scan.recipes, scan.pkgName)
                    IN  IF recipe = NoRecipe
                        THEN [ scan EXCEPT !.step = "done", !.err = "package not found" ]
                        ELSE [ scan EXCEPT !.step = "done", !.result = recipe ]
    /\ UNCHANGED <<storeVars, up, san, ref, cat>>

NextScan == \E ok \in BOOLEAN : ScanByPackage(ok)

SpecScan == InitScan /\ [][NextScan]_vars

\* C34: the four rules in their order; the first rule that some recipe of the
\* repository satisfies decides: the recipe returned satisfies that rule (a
\* recipe whose pkg_id is the name is preferred to one that only contains it).
\* The call fails with "package not found" iff no recipe satisfies any rule.
RuleOrder ==
    LET found == { scan.recipes[i] : i \in 1..Len(scan.recipes) }
        rule1(r) == r.PkgID = scan.pkgName
        rule2(r) == r.Name = scan.pkgName
        rule3(r) == \E i \in 0..Len(r.PkgID) :
                        /\ i + Len(scan.pkgName) <= Len(r.PkgID)
                        /\ SubSeq(r.PkgID, i + 1, i + Len(scan.pkgName)) = scan.pkgName
        rule4(r) == \E i \in 1..Len(r.BuildScript) :
                        1 < i /\ i < Len(r.BuildScript) /\ r.BuildScript[i] = scan.pkgName
    IN  (scan.step = "done" /\ scan.err # "failed to scan") =>
            /\ scan.err = "package not found" <=>
                   ~ \E r \in found : rule1(r) \/ rule2(r) \/ rule3(r) \/ rule4(r)
            /\ scan.err = "" =>
                   /\ scan.result \in found
                   /\ IF \E r \in found : rule1(r) THEN rule1(scan.result)
                      ELSE IF \E r \in found : rule2(r) THEN rule2(scan.result)
                      ELSE IF \E r \in found : rule3(r) THEN rule3(scan.result)
                      ELSE rule4(scan.result)

\* ==================================================== one image per variant
\* UploadPackage for a package that provides several binaries: its loop over
\* determineUploadTargets' result, which is Provides itself, with one
\* uploadSinglePackage for each.  Names are sequences of characters.
VariantNames == { <<"b", "a", "t">>, <<"a", ".", "b">>, <<"a", "-", "b">>, <<"A", ".", "b">> }

\* Provides with two entries that differ.
VariantInputs ==
    { [ step |-> "push", Provides |-> provides, PkgFamily |-> <<"b", "a", "t">>,
        Version |-> version, Arch |-> <<"a">>, recipePath |-> recipePath,
        pushed |-> << >> ] :
          provides \in { p \in VariantNames \X VariantNames : p[1] # p[2] },
          version \in RefVersions \ {<< >>}, recipePath \in RecipePaths }

InitVariants ==
    /\ builds = << >>
    /\ seq = 0
    /\ clock = 0
    /\ pc = [ p \in Procs |-> "idle" ]
    /\ cur = [ p \in Procs |-> 0 ]
    /\ now = [ p \in Procs |-> 0 ]
    /\ assigned = {}
    /\ everBuilding = {}
    /\ nStart = << >>
    /\ stale = {}
    /\ late = {}
    /\ sync_state = << >>
    /\ dispatch = "run"
    /\ crashed = {}
    /\ exec = [ p \in Procs |-> NoExec ]
    /\ up = NoUpload
    /\ san = NoSanitize
    /\ ref \in VariantInputs
    /\ cat = NoCatalogue
    /\ scan = NoScan

\* One pass of UploadPackage's loop: uploadSinglePackage runs the push tool
\* with imageName for the next target; the loop goes on whether it fails or not.
PushVariant(ok) ==
    /\ ref.step = "push"
    /\ LET targetName == ref.Provides[Len(ref.pushed) + 1]
           pushed == Append(ref.pushed, [ image |-> imageName(ref, targetName), ok |-> ok ])
       IN  ref' = [ ref EXCEPT !.pushed = pushed,
                               !.step = IF Len(pushed) = Len(ref.Provides) THEN "done" ELSE "push" ]
    /\ UNCHANGED <<storeVars, up, san, cat, scan>>

NextVariants == \E ok \in BOOLEAN : PushVariant(ok)

SpecVariants == InitVariants /\ [][NextVariants]_vars

\* C35: the pushes of one run for different entries of Provides go to
\* different image references.
DistinctReferences ==
    \A i, j \in 1..Len(ref.pushed) :
        ref.Provides[i] # ref.Provides[j] => ref.pushed[i].image # ref.pushed[j].image

\* ============================================= what the publisher annotates
\* uploadSinglePackage pushes an image with the annotations of
\* buildOrasPushCommand; the catalogue builder then queries the package, whose
\* only tag is that image.  An annotation is <<key, value>>, the argument
\* key=value of the push tool.
SoarJSONKey == "dev.pkgforge.soar.json"

\* The PackageInfo fields buildOrasPushCommand tests, set or not.
PushInfos ==
    [ Homepage : {"", "https://bat.example"}, SrcURL : {"", "https://src.example"},
      BSum : {"", "b3"}, ShaSum : {"", "sha"}, Size : {"", "1 KB"}, SizeRaw : {0, 1024},
      Provides : { << >>, <<"bat", "batcat">> } ]

\* Mutant: the whole metadata as one more annotation.
buildOrasPushCommandWithJSON(pkgInfo, id, targetName) ==
    << <<"dev.pkgforge.soar.pkg", targetName>>, <<SoarJSONKey, CalMeta>> >>

\* buildOrasPushCommand: the --annotation arguments, in order.
buildOrasPushCommand(pkgInfo, id, targetName) ==
    << <<"org.opencontainers.image.created", "date">>,
       <<"org.opencontainers.image.version", "version">>,
       <<"org.opencontainers.image.title", targetName>>,
       <<"org.opencontainers.image.description", "description">>,
       <<"org.opencontainers.image.vendor", "pkgforge">>,
       <<"org.opencontainers.image.licenses", "blessing">>,
       <<"org.opencontainers.image.authors", "https://docs.pkgforge.dev/contact/chat">> >>
    \o (IF pkgInfo.Homepage # "" THEN << <<"org.opencontainers.image.url", pkgInfo.Homepage>> >>
        ELSE << >>)
    \o (IF pkgInfo.SrcURL # "" THEN << <<"org.opencontainers.image.source", pkgInfo.SrcURL>> >>
        ELSE << >>)
    \o << <<"dev.pkgforge.soar.pkg", targetName>>,
          <<"dev.pkgforge.soar.pkg_name", targetName>>,
          <<"dev.pkgforge.soar.pkg_family", "family">>,
          <<"dev.pkgforge.soar.version", "version">>,
          <<"dev.pkgforge.soar.build_date", "date">>,
          <<"dev.pkgforge.soar.build_id", id>>,
          <<"dev.pkgforge.soar.description", "description">> >>
    \o (IF pkgInfo.Homepage # "" THEN << <<"dev.pkgforge.soar.homepage", pkgInfo.Homepage>> >>
        ELSE << >>)
    \o (IF pkgInfo.SrcURL # "" THEN << <<"dev.pkgforge.soar.src_url", pkgInfo.SrcURL>> >>
        ELSE << >>)
    \o (IF pkgInfo.BSum # "" THEN << <<"dev.pkgforge.soar.bsum", pkgInfo.BSum>> >> ELSE << >>)
    \o (IF pkgInfo.ShaSum # "" THEN << <<"dev.pkgforge.soar.shasum", pkgInfo.ShaSum>> >>
        ELSE << >>)
    \o (IF pkgInfo.Size # "" THEN << <<"dev.pkgforge.soar.size", pkgInfo.Size>> >> ELSE << >>)
    \o (IF pkgInfo.SizeRaw > 0 THEN << <<"dev.pkgforge.soar.size_raw", pkgInfo.SizeRaw>> >>
        ELSE << >>)
    \o (IF Len(pkgInfo.Provides) > 0
        THEN << <<"dev.pkgforge.soar.provides", pkgInfo.Provides>> >> ELSE << >>)
    \o << <<"dev.pkgforge.discord", "https://discord.gg/djJUs48Zbu">> >>

\* The manifest the registry holds for an image pushed with these annotations,
\* as QueryPackageMetadata reads it: manifest.Annotations[SoarJSONKey].
ManifestOf(annotations) ==
    IF \E i \in 1..Len(annotations) : annotations[i][1] = SoarJSONKey
    THEN Annotated((CHOOSE a \in { annotations[i] : i \in 1..Len(annotations) } :
                        a[1] = SoarJSONKey)[2])
    ELSE NoAnnotation

PublishedInputs ==
    { [ step |-> "push", pkgInfo |-> pkgInfo, annotations |-> << >>, queried |-> FALSE,
        json |-> << >>, db |-> {}, converted |-> FALSE ] : pkgInfo \in PushInfos }

InitPublished ==
    /\ builds = << >>
    /\ seq = 0
    /\ clock = 0
    /\ pc = [ p \in Procs |-> "idle" ]
    /\ cur = [ p \in Procs |-> 0 ]
    /\ now = [ p \in Procs |-> 0 ]
    /\ assigned = {}
    /\ everBuilding = {}
    /\ nStart = << >>
    /\ stale = {}
    /\ late = {}
    /\ sync_state = << >>
    /\ dispatch = "run"
    /\ crashed = {}
    /\ exec = [ p \in Procs |-> NoExec ]
    /\ up = NoUpload
    /\ san = NoSanitize
    /\ ref = NoRef
    /\ cat \in PublishedInputs
    /\ scan = NoScan

\* uploadSinglePackage: the push tool is run with buildOrasPushCommand's
\* arguments for build `id` and the target.
PushAnnotated(id, targetName) ==
    /\ cat.step = "push"
    /\ cat' = [ cat EXCEPT !.step = "query",
                           !.annotations = buildOrasPushCommand(cat.pkgInfo, id, targetName) ]
    /\ UNCHANGED <<storeVars, up, san, ref, scan>>

\* GenerateMetadataForPackages' pass for the package: its tags are listed (or
\* not), the manifest of the one tag is what was pushed.
QueryPublished(tagsOk) ==
    /\ cat.step = "query"
    /\ LET answer == [ tagsOk |-> tagsOk, tags |-> <<TagV1>>,
                       manifests |-> <<ManifestOf(cat.annotations)>> ]
       IN  cat' = [ cat EXCEPT !.step = "convert", !.queried = TRUE,
                               !.json = WriteRecord(@, QueryPackageMetadata(answer)) ]
    /\ UNCHANGED <<storeVars, up, san, ref, scan>>

\* ConvertJSONToSQLite into a new <arch>.db.
ConvertPublished ==
    /\ cat.step = "convert"
    /\ cat' = [ cat EXCEPT !.step = "done", !.db = InsertAll(@, cat.json), !.converted = TRUE ]
    /\ UNCHANGED <<storeVars, up, san, ref, scan>>

NextPublished ==
    \/ \E id \in 1..MaxBuilds, targetName \in {"bat", "batcat"} : PushAnnotated(id, targetName)
    \/ \E tagsOk \in BOOLEAN : QueryPublished(tagsOk)
    \/ ConvertPublished

SpecPublished == InitPublished /\ [][NextPublished]_vars

\* C36: no annotation of a push is named dev.pkgforge.soar.json; the catalogue
\* builder writes no record for the package to <arch>.json and no row to
\* <arch>.db.
NoSoarJSON ==
    /\ \A i \in 1..Len(cat.annotations) : cat.annotations[i][1] # "dev.pkgforge.soar.json"
    /\ cat.queried => cat.json = << >>
    /\ cat.converted => cat.db = {}

\* An image pushed with every optional annotation, its tags listed and its
\* manifest read: the build is over without a record.
NoSoarJSONWitness ==
    /\ cat.step = "done"
    /\ \E i \in 1..Len(cat.annotations) : cat.annotations[i][1] = "dev.pkgforge.soar.provides"
    /\ \E i \in 1..Len(cat.annotations) : cat.annotations[i][1] = "dev.pkgforge.soar.size_raw"
    /\ \E i \in 1..Len(cat.annotations) : cat.annotations[i][1] = "org.opencontainers.image.url"
    /\ cat.json = << >>
    /\ cat.db = {}

\* ================================================================= the drain
\* One worker of a dispatch command that goes on running, and queueCmd beside
\* it until MaxBuilds rows were enqueued; every write succeeds, within one tick
\* of the clock.
NextDrain ==
    \/ \E n \in Pkgs, a \in Archs : seq < MaxBuilds /\ Add(n, a, DefaultPriority, FALSE, clock)
    \/ WorkerGetNext("w1")
    \/ WorkerIdle("w1")
    \/ StampBuilding("w1", clock)
    \/ WriteBuilding("w1")
    \/ \E ok \in BOOLEAN : CreateLog("w1", ok)
    \/ \E ok \in BOOLEAN : LookPath("w1", ok)
    \/ \E ok \in BOOLEAN : StatRecipe("w1", ok)
    \/ \E ok \in BOOLEAN : StartDriver("w1", ok)
    \/ \E code \in {0, 1} : DriverExit("w1", code)
    \/ Wait("w1")
    \/ \E readable \in BOOLEAN : ReadLog("w1", readable)
    \/ FinishRun("w1", clock)
    \/ WriteOutcome("w1")

\* The worker is scheduled: it gets the next row, writes it `building` and
\* goes through ExecuteBuild, and the driver exits.
DrainSteps ==
    \/ WorkerGetNext("w1")
    \/ StampBuilding("w1", clock)
    \/ WriteBuilding("w1")
    \/ RunSteps

SpecDrain == Init /\ [][NextDrain]_vars /\ WF_vars(DrainSteps)

\* C37: every row queued for the worker's arch, whenever it was enqueued,
\* eventually has a terminal status; the worker that found the queue empty is
\* still there to get it.
QueueDrains ==
    \A id \in 1..MaxBuilds :
        (id \in DOMAIN builds /\ builds[id].status = StatusQueued /\ builds[id].arch = DispatchArch)
            ~> (id \in DOMAIN builds /\ builds[id].status \in Terminal)

\* A second row was enqueued after the worker had finished the first and found
\* the queue empty, and it is terminal too.
QueueDrainsWitness ==
    /\ pc["w1"] = "idle"
    /\ \A id \in 1..MaxBuilds :
        /\ id \in DOMAIN builds
        /\ builds[id].arch = DispatchArch
        /\ builds[id].status \in Terminal
        /\ id > 1 => builds[id].created_at >= Val(builds[1].completed_at)

\* ============================================================ GetNext reads
\* Both workers of a dispatch command getting rows enqueued earlier, some of
\* them equal in priority and created_at, and writing them `building`; the
\* first worker's builds succeed and it goes on, the second one's build lasts.
NextClaim ==
    \/ \E w \in Workers : WorkerGetNext(w)
    \/ \E w \in Workers : WorkerIdle(w)
    \/ \E w \in Workers : StampBuilding(w, clock)
    \/ \E w \in Workers : WriteBuilding(w)
    \/ Finish("w1", clock)
    \/ WriteTerminal("w1", <<StatusSucceeded, "">>)

SpecClaim == InitForce /\ [][NextClaim]_vars

\* A worker's GetNext returns in this step.
GetNextStep(w) == pc[w] = "idle" /\ pc'[w] = "claimed"

\* C38: GetNext leaves the table as it is, so the next GetNext for the arch
\* selects among the same rows and can return the row this one returned; a row
\* becomes `building` only in the UPDATE of a caller that got it before.
GetNextReadsOnly ==
    [][ /\ \A w \in Workers :
            GetNextStep(w) =>
                /\ builds' = builds
                /\ GetNext(builds', DispatchArch) = GetNext(builds, DispatchArch)
                /\ cur'[w] \in GetNext(builds', DispatchArch)
        /\ \A id \in DOMAIN builds :
            (builds[id].status # StatusBuilding /\ builds'[id].status = StatusBuilding) =>
                \E w \in Workers : pc[w] = "stampB" /\ pc'[w] = "running" /\ cur[w] = id ]_vars

\* Two calls with no write in between returned the same row, the only one
\* GetNext can return, and it is still queued.
GetNextReadsOnlyWitness ==
    /\ \A w \in Workers : pc[w] = "claimed"
    /\ cur["w1"] = cur["w2"]
    /\ GetNext(builds, DispatchArch) = {cur["w1"]}
    /\ builds[cur["w1"]].status = StatusQueued
    /\ everBuilding = {}

\* ====================================================== the dispatch command
\* `buildctl build --arch A` without max-duration: one worker, and buildCmd
\* polling GetStats until nothing is queued or building; queueCmd enqueues up
\* to MaxBuilds rows of either arch beside it, within one tick of the clock.
NextWait ==
    \/ \E n \in Pkgs, a \in Archs, r \in Priorities : seq < MaxBuilds /\ Add(n, a, r, FALSE, clock)
    \/ WorkerGetNext("w1")
    \/ WorkerIdle("w1")
    \/ StampBuilding("w1", clock)
    \/ WriteBuilding("w1")
    \/ Finish("w1", clock)
    \/ \E o \in Outcomes : WriteTerminal("w1", o)
    \/ DispatchReturn("drained")
    \/ WorkerStop("w1")

\* The worker is scheduled and builds end; buildCmd wakes up from its sleep
\* and reads the stats again.
WaitSteps ==
    \/ WorkerGetNext("w1")
    \/ StampBuilding("w1", clock)
    \/ WriteBuilding("w1")
    \/ Finish("w1", clock)
    \/ \E o \in Outcomes : WriteTerminal("w1", o)

SpecWait == Init /\ [][NextWait]_vars /\ WF_vars(WaitSteps) /\ WF_vars(DispatchReturn("drained"))

\* Every row of the dispatch command's arch is terminal and queueCmd is done.
ArchDrained ==
    /\ seq = MaxBuilds
    /\ \A id \in DOMAIN builds : builds[id].arch = DispatchArch => builds[id].status \in Terminal

\* C39: once every row of its arch is terminal the dispatch command returns,
\* whatever rows the other arch has.
DispatchReturnsWhenArchDrained == ArchDrained ~> (dispatch = "closed")

====
